---- MODULE Spec2Model ----
(***************************************************************************)
(* TripCraft AI coordination core: the multi-provider LLM manager          *)
(* (API/TripCraft_AI/services/llm_manager.py), the orchestrator agent      *)
(* (API_3_imp/TripCraft_AI/agents/orchestrator.py) and the websocket       *)
(* connection manager (API/TripCraft_AI/api/realtime.py).                  *)
(***************************************************************************)
EXTENDS Integers, Sequences, FiniteSets, TLC

(***************************************************************************)
(* Bounds of the model.                                                    *)
(***************************************************************************)
\* number of callers that hold a reference to the one global llm_manager
NumCallers == 2
\* number of trip ids clients connect to; one more than MaxConnections, so
\* that more trips ask for a connection than the limit admits
NumTrips == 3
\* number of websocket connections clients open in a run
NumHandles == 3
\* the global limit of websocket_endpoint ("if len(...) >= 50"), scaled down to
\* the number of trips of the model so that the limit is reached
MaxConnections == 2
\* number of _monitor_trip tasks of one trip id that are alive at a time
MaxTasks == 3
\* number of plans made where the monitoring loops are followed
MaxSessions == 1

(***************************************************************************)
(* State.                                                                  *)
(***************************************************************************)
VARIABLES
    last_successful_provider,   \* self.last_successful_provider
    settings,                   \* which API keys get_settings() holds
    gen_pc,                     \* per caller: "idle", "loop", "done" or "raised"
    providers,                  \* per caller: the local list providers
    idx,                        \* per caller: position of the for loop in providers
    errors,                     \* per caller: the local list errors
    result,                     \* per caller: the dict the call returned
    attempts,                   \* per caller: the provider calls made so far, in order
    prev_result,                \* success and provider of the most recent returned dict
    seen_prev                   \* per caller: prev_result when this call started

llmVars == <<last_successful_provider, settings, gen_pc, providers, idx, errors,
             result, attempts, prev_result, seen_prev>>

VARIABLES
    agents,             \* self.agents: the registered agent types
    orch_pc,            \* position of execute: "idle", "coordinating", "gather",
                        \* "budget", "audio_tour", "returned" or "raised"
    request,            \* the request dict of the run
    coordination_plan,  \* what call_ollama returned for the coordination prompt
    core_tasks,         \* the agent types of core_tasks, in launch order
    task_state,         \* per core task: "pending", "running" or "done"
    task_outcome,       \* per core task: what the worker's execute did
    core_results,       \* per core task: the value gather returns for it
    results,            \* the dict results
    dependent_input,    \* agent_results as handed to each dependent worker started
    orch_return         \* the dict execute returned

orchVars == <<agents, orch_pc, request, coordination_plan, core_tasks, task_state,
              task_outcome, core_results, results, dependent_input, orch_return>>

VARIABLES
    active_connections,  \* manager.active_connections: trip id -> websocket
    connection_count,    \* manager.connection_count
    ws_pc,               \* per websocket: position of websocket_endpoint
    ws_trip,             \* per websocket: the trip_id of its path
    ws_old,              \* per websocket: the connection its connect() is closing
    ws_open,             \* per websocket: neither side has closed it
    close_code,          \* per websocket: code of the close() the server called on it
    ws_sent,             \* the message the server sent in the latest step: to whom, and its type
    replaced,            \* per websocket: the connection it closed and replaced
    publish              \* the call of manager.send_update in flight, or the one that
                         \* returned in the latest step

rtVars == <<active_connections, connection_count, ws_pc, ws_trip, ws_old, ws_open,
            close_code, ws_sent, replaced, publish>>

VARIABLES
    services,         \* which services TravelPlanningService.__init__ could build
    monitored_trips,  \* per RealtimeService instance: trip id -> the stored plan
    monitor_tasks,    \* per trip id: how many of its _monitor_trip tasks are in
                      \* the checks, and how many are suspended before the test
                      \* of line 27 (just created, or in asyncio.sleep)
    monitor_step,     \* what a _monitor_trip task did in the latest step
    trips_created,    \* number of trip ids create_travel_plan has drawn
    plan_pc,          \* position of create_travel_plan
    plan_request,     \* the request of the create_travel_plan call
    plan_trip,        \* trip_id of the create_travel_plan call
    response,         \* the response create_travel_plan has built or returned
    svc_call          \* the latest call of a RealtimeService endpoint, with its result

svcVars == <<services, monitored_trips, monitor_tasks, monitor_step, trips_created,
             plan_pc, plan_request, plan_trip, response, svc_call>>

VARIABLES
    is_available,   \* groq_client.is_available
    groq_call       \* the latest call of groq_client.generate

groqVars == <<is_available, groq_call>>

VARIABLES
    retry           \* the latest call of groq_client.generate_with_retry

retryVars == <<retry>>

VARIABLES
    is_warmed_up,   \* ollama_manager.is_warmed_up
    om_lock,        \* the callers that hold ollama_manager._lock
    om_call         \* per caller, its call of ensure_model_ready or generate_optimized

omVars == <<is_warmed_up, om_lock, om_call>>

VARIABLES
    rate_limit_store,   \* travel.py: client ip -> the times of its recorded requests
    now,                \* time.time(), in whole seconds
    admitted,           \* per client ip, the times of all requests let through
    rate_call           \* the latest call of check_rate_limit or get_rate_limit_status

rateVars == <<rate_limit_store, now, admitted, rate_call>>

VARIABLES
    hf_token,           \* LLMClientFallback.hf_token is set
    last_backend_used,  \* LLMClientFallback.last_backend_used
    legacy_call         \* per caller, its call of LLMClientFallback.generate_text

legacyVars == <<hf_token, last_backend_used, legacy_call>>

\* the components that stand apart from the coordination core
extraVars == <<retryVars, omVars, rateVars, legacyVars>>

\* an action of one component leaves the other components alone
LLMOnly == UNCHANGED <<orchVars, rtVars, svcVars, groqVars, extraVars>>

OrchOnly == UNCHANGED <<llmVars, rtVars, svcVars, groqVars, extraVars>>

RealtimeOnly == UNCHANGED <<llmVars, orchVars, svcVars, groqVars, extraVars>>

ServiceOnly == UNCHANGED <<llmVars, orchVars, rtVars, groqVars, extraVars>>

GroqOnly == UNCHANGED <<llmVars, orchVars, rtVars, svcVars, extraVars>>

\* generate_with_retry drives the Groq client
RetryOnly == UNCHANGED <<llmVars, orchVars, rtVars, svcVars, omVars, rateVars, legacyVars>>

coreVars == <<llmVars, orchVars, rtVars, svcVars, groqVars>>

OllamaOnly == UNCHANGED <<coreVars, retryVars, rateVars, legacyVars>>

RateLimitOnly == UNCHANGED <<coreVars, retryVars, omVars, legacyVars>>

LegacyOnly == UNCHANGED <<coreVars, retryVars, omVars, rateVars>>

vars == <<llmVars, orchVars, rtVars, svcVars, groqVars, extraVars>>

(***************************************************************************)
(* Python values.                                                          *)
(***************************************************************************)
\* Python's None
NoneV == "<None>"
\* a truthy JSON value that has no len(): a number or true
UnsizedV == "<number>"
\* no exception
NoExc == "<no exception>"

\* bool(v) of a value a provider call returns: "if result:"
Truthy_EmptyIsTrue(v) == v # NoneV

Truthy(v) == v \notin {"", NoneV}

\* whether len(v) is defined for a truthy value v
HasLen(v) == v # UnsizedV

(***************************************************************************)
(* LLMManager: providers and what the remote end answers.                  *)
(***************************************************************************)
\* providers = ["groq", "gemini", "ollama"]
FixedOrder == <<"groq", "gemini", "ollama">>

Providers == {FixedOrder[i] : i \in DOMAIN FixedOrder}

\* text a provider can produce
Texts == {"ok", "hi"}

\* the content field of a response body
Contents == Texts \cup {"", NoneV, UnsizedV}

\* what can happen to one HTTP exchange with a provider
FailKinds == {"timeout", "connect_error", "http_429", "http_500", "bad_json",
              "no_choices", "no_content", "health_down"}

FinishReasons == {"stop", "length", "blocked"}

Responses ==
    [kind : FailKinds, content : {NoneV}, finish : {"stop"}]
        \cup [kind : {"content"}, content : Contents, finish : FinishReasons]

\* the value of a call that returned v
Returned(v) == [exc |-> NoExc, msg |-> "", value |-> v]

\* a call that raised an exception of class cls with text msg
Raised(cls, msg) == [exc |-> cls, msg |-> msg, value |-> NoneV]

\* the exception httpx raises for a failed exchange, or for a body that does not parse
HttpFailure(resp) ==
    CASE resp.kind = "timeout" -> Raised("TimeoutException", "timed out")
      [] resp.kind = "connect_error" -> Raised("ConnectError", "connection failed")
      [] resp.kind = "http_429" -> Raised("HTTPStatusError", "429 Too Many Requests")
      [] resp.kind = "http_500" -> Raised("HTTPStatusError", "500 Server Error")
      [] resp.kind = "bad_json" -> Raised("JSONDecodeError", "Expecting value")

HttpFailKinds == {"timeout", "connect_error", "http_429", "http_500", "bad_json"}

TruncationNote == "\n[Response truncated - continuing with fallback...]"

\* LLMManager._call_groq
CallGroq(hasKey, resp) ==
    IF ~hasKey THEN Raised("Exception", "Groq API key not configured")
    ELSE IF resp.kind \in HttpFailKinds THEN HttpFailure(resp)
    ELSE IF resp.kind \in {"no_choices", "health_down"}
        THEN Raised("Exception", "Invalid response format from Groq")
    ELSE IF resp.kind = "no_content" THEN Raised("KeyError", "content")
    ELSE IF resp.finish = "length"
        THEN IF resp.content \in {NoneV, UnsizedV}
                THEN Raised("TypeError", "unsupported operand type(s) for +")
                ELSE Returned(resp.content \o TruncationNote)
    ELSE Returned(resp.content)

\* LLMManager._call_gemini
CallGemini(hasKey, resp) ==
    IF ~hasKey THEN Raised("Exception", "Google API key not configured")
    ELSE IF resp.kind \in HttpFailKinds THEN HttpFailure(resp)
    ELSE IF resp.kind \in {"no_choices", "health_down"}
        THEN Raised("Exception", "No candidates in Gemini response")
    ELSE IF resp.finish = "blocked"
        THEN Raised("Exception", "Gemini blocked generation: SAFETY")
    ELSE IF resp.kind = "no_content"
        THEN Raised("Exception", "Invalid content structure from Gemini")
    ELSE Returned(resp.content)

\* LLMManager._call_ollama
CallOllama(resp) ==
    IF resp.kind = "health_down" THEN Raised("Exception", "Ollama service not available")
    ELSE IF resp.kind = "connect_error"
        THEN Raised("Exception", "Cannot connect to Ollama - ensure it's running")
    ELSE IF resp.kind = "timeout" THEN Raised("Exception", "Ollama request timed out")
    ELSE IF resp.kind \in HttpFailKinds THEN HttpFailure(resp)
    ELSE IF resp.kind \in {"no_choices", "no_content"}
        THEN Raised("Exception", "Invalid response from Ollama")
    ELSE Returned(resp.content)

\* the if/elif chain of generate_text that picks the provider's method
CallProvider(provider, keys, resp) ==
    CASE provider = "groq" -> CallGroq(keys.GROQ_API_KEY, resp)
      [] provider = "gemini" -> CallGemini(keys.GOOGLE_API_KEY, resp)
      [] provider = "ollama" -> CallOllama(resp)


(***************************************************************************)
(* LLMManager.generate_text                                                *)
(***************************************************************************)
Callers == 1 .. NumCallers

\* no call has finished yet, or the call has not returned
NoResult == [content |-> "", provider |-> NoneV, success |-> FALSE, errors |-> <<>>,
             returned |-> FALSE]

\* no call has returned a dict yet
NoPrev == [success |-> FALSE, provider |-> NoneV]

\* list.remove(x): the list without the first occurrence of x
ListRemove_Nothing(list, x) == list

ListRemove(list, x) ==
    LET first == CHOOSE i \in DOMAIN list :
                     list[i] = x /\ \A j \in 1 .. (i - 1) : list[j] # x
    IN  SubSeq(list, 1, first - 1) \o SubSeq(list, first + 1, Len(list))

\* the provider order of a call that finds the pointer at last (lines 33-39)
StickyOrder_NoReorder(last) == FixedOrder

StickyOrder(last) ==
    IF last # NoneV /\ last \in Providers
        THEN <<last>> \o ListRemove(FixedOrder, last)
        ELSE FixedOrder

\* "except Exception": the classes the handler of generate_text catches
ExceptionClasses == {"Exception", "HTTPStatusError", "TimeoutException", "ConnectError",
                     "JSONDecodeError", "KeyError", "TypeError"}

Catches_OnlyHttpx(cls) == cls \in {"HTTPStatusError", "TimeoutException", "ConnectError"}

Catches(cls) == cls \in ExceptionClasses

\* f"{provider} failed: {str(e)}"
ErrorMsg(provider, msg) == [provider |-> provider, error |-> msg]

\* the dict returned on success (lines 55-60)
SuccessResult(content, provider, errs) ==
    [content |-> content, provider |-> provider, success |-> TRUE, errors |-> errs,
     returned |-> TRUE]

\* the dict returned when the loop ends (lines 70-75)
FailureResult(errs) ==
    [content |-> "", provider |-> NoneV, success |-> FALSE, errors |-> errs,
     returned |-> TRUE]

\* One iteration of "for provider in providers" on the answer resp: what the
\* iteration leaves behind. write: the pointer is assigned (line 53); next is
\* "return", "continue" or "escape" (an exception the handler does not catch).
Iteration(provider, keys, resp, errs) ==
    LET out == CallProvider(provider, keys, resp)
        lenFails == out.exc = NoExc /\ Truthy(out.value) /\ ~HasLen(out.value)
        exc == IF lenFails THEN "TypeError" ELSE out.exc
        msg == IF lenFails THEN "object of this type has no len()" ELSE out.msg
    IN  IF out.exc = NoExc /\ Truthy(out.value) /\ HasLen(out.value)
            THEN [write |-> TRUE, next |-> "return", errors |-> errs, exc |-> NoExc,
                  result |-> SuccessResult(out.value, provider, errs), out |-> out]
        ELSE IF exc = NoExc
            THEN [write |-> FALSE, next |-> "continue", errors |-> errs, exc |-> NoExc,
                  result |-> NoResult, out |-> out]
        ELSE IF Catches(exc)
            THEN [write |-> lenFails, next |-> "continue",
                  errors |-> Append(errs, ErrorMsg(provider, msg)), exc |-> exc,
                  result |-> NoResult, out |-> out]
        ELSE [write |-> lenFails, next |-> "escape", errors |-> errs, exc |-> exc,
              result |-> NoResult, out |-> out]

LLMInit ==
    /\ last_successful_provider = NoneV
    /\ settings \in [GROQ_API_KEY : BOOLEAN, GOOGLE_API_KEY : BOOLEAN]
    /\ gen_pc = [c \in Callers |-> "idle"]
    /\ providers = [c \in Callers |-> <<>>]
    /\ idx = [c \in Callers |-> 0]
    /\ errors = [c \in Callers |-> <<>>]
    /\ result = [c \in Callers |-> NoResult]
    /\ attempts = [c \in Callers |-> <<>>]
    /\ prev_result = NoPrev
    /\ seen_prev = [c \in Callers |-> NoPrev]

\* generate_text up to the for loop (lines 33-39)
GenStart(c) ==
    /\ gen_pc[c] = "idle"
    /\ gen_pc' = [gen_pc EXCEPT ![c] = "loop"]
    /\ providers' = [providers EXCEPT ![c] = StickyOrder(last_successful_provider)]
    /\ idx' = [idx EXCEPT ![c] = 1]
    /\ errors' = [errors EXCEPT ![c] = <<>>]
    /\ result' = [result EXCEPT ![c] = NoResult]
    /\ attempts' = [attempts EXCEPT ![c] = <<>>]
    /\ seen_prev' = [seen_prev EXCEPT ![c] = prev_result]
    /\ UNCHANGED <<last_successful_provider, settings, prev_result>>
    /\ LLMOnly

\* one iteration of the for loop (lines 41-66) and, after the last one, lines 68-75
GenAttempt(c, resp) ==
    /\ gen_pc[c] = "loop"
    /\ LET provider == providers[c][idx[c]]
           it == Iteration(provider, settings, resp, errors[c])
           last == idx[c] = Len(providers[c])
       IN  /\ attempts' = [attempts EXCEPT ![c] =
                   Append(@, [provider |-> provider, raised |-> it.exc # NoExc,
                              value |-> it.out.value])]
           /\ last_successful_provider' =
                   IF it.write THEN provider ELSE last_successful_provider
           /\ errors' = [errors EXCEPT ![c] = it.errors]
           /\ CASE it.next = "return" ->
                    /\ gen_pc' = [gen_pc EXCEPT ![c] = "done"]
                    /\ result' = [result EXCEPT ![c] = it.result]
                    /\ UNCHANGED idx
                [] it.next = "escape" ->
                    /\ gen_pc' = [gen_pc EXCEPT ![c] = "raised"]
                    /\ UNCHANGED <<idx, result>>
                [] it.next = "continue" /\ last ->
                    /\ gen_pc' = [gen_pc EXCEPT ![c] = "done"]
                    /\ result' = [result EXCEPT ![c] = FailureResult(it.errors)]
                    /\ UNCHANGED idx
                [] it.next = "continue" /\ ~last ->
                    /\ idx' = [idx EXCEPT ![c] = @ + 1]
                    /\ UNCHANGED <<gen_pc, result>>
    /\ UNCHANGED <<settings, providers, prev_result, seen_prev>>
    /\ LLMOnly

\* the caller takes the returned dict (or the exception); the locals of the call die
GenReturn(c) ==
    /\ gen_pc[c] \in {"done", "raised"}
    /\ prev_result' = IF gen_pc[c] = "done"
                          THEN [success |-> result[c].success,
                                provider |-> result[c].provider]
                          ELSE NoPrev
    /\ gen_pc' = [gen_pc EXCEPT ![c] = "idle"]
    /\ providers' = [providers EXCEPT ![c] = <<>>]
    /\ idx' = [idx EXCEPT ![c] = 0]
    /\ errors' = [errors EXCEPT ![c] = <<>>]
    /\ result' = [result EXCEPT ![c] = NoResult]
    /\ attempts' = [attempts EXCEPT ![c] = <<>>]
    /\ seen_prev' = [seen_prev EXCEPT ![c] = NoPrev]
    /\ UNCHANGED <<last_successful_provider, settings>>
    /\ LLMOnly

\* sequential use of the manager: a call starts only when no other is in flight
NoCallInFlight == \A c \in Callers : gen_pc[c] = "idle"

LLMNext ==
    \/ \E c \in Callers : NoCallInFlight /\ GenStart(c)
    \/ \E c \in Callers, resp \in Responses : GenAttempt(c, resp)
    \/ \E c \in Callers : GenReturn(c)

\* concurrent use of the manager: the agents of the orchestrator's fan-out
\* call generate_text on the one module-level llm_manager, and a call starts
\* while others are suspended in their provider calls
\* the answers drawn while calls overlap: one of each way an iteration can
\* touch the pointer (returns text, returns a value without len(), raises)
ConcurrentResponses ==
    {resp \in Responses :
        /\ resp.kind \in {"content", "timeout"}
        /\ resp.finish = "stop"
        /\ (resp.kind = "content" => resp.content \in {UnsizedV, "ok"})}

ConcurrentNext ==
    \/ \E c \in Callers : GenStart(c)
    \/ \E c \in Callers, resp \in ConcurrentResponses : GenAttempt(c, resp)
    \/ \E c \in Callers : GenReturn(c)

(***************************************************************************)
(* Properties of LLMManager.generate_text                                  *)
(***************************************************************************)
\* the fixed priority order with provider P moved to the front
OrderWithFirst(P) == <<P>> \o SelectSeq(FixedOrder, LAMBDA q : q # P)

\* an attempt in which the provider returned empty or None content, or raised
AttemptFailed(a) == a.raised \/ a.value \in {"", NoneV}

\* an attempt in which the provider returned non-empty text
AttemptGaveText(a) == ~a.raised /\ a.value \notin {"", NoneV, UnsizedV}

\* C1: in sequential use, when the previous call returned success=true with
\* provider P, the next call's attempt order is P followed by the other
\* providers in the fixed order groq, gemini, ollama, and its attempts follow it.
C1_StickyOrdering ==
    \A c \in Callers :
        (gen_pc[c] # "idle" /\ seen_prev[c].success) =>
            /\ providers[c] = OrderWithFirst(seen_prev[c].provider)
            /\ Len(attempts[c]) <= Len(FixedOrder)
            /\ \A i \in DOMAIN attempts[c] :
                   attempts[c][i].provider = OrderWithFirst(seen_prev[c].provider)[i]

\* a call that follows a success of ollama has tried ollama, groq and gemini
C1_Witness ==
    \E c \in Callers :
        /\ seen_prev[c].success /\ seen_prev[c].provider = "ollama"
        /\ Len(attempts[c]) = 3
        /\ attempts[c][1].provider = "ollama" /\ attempts[c][2].provider = "groq"

\* C2: when every provider of a call fails, by raising or by returning empty or
\* None content, the call returns success=false, empty content, provider None
\* and errors with exactly one entry per attempted provider, in attempt order.
C2_OneErrorPerAttempt ==
    \A c \in Callers :
        (gen_pc[c] = "done" /\ \A i \in DOMAIN attempts[c] : AttemptFailed(attempts[c][i])) =>
            /\ ~result[c].success
            /\ result[c].content = ""
            /\ result[c].provider = NoneV
            /\ Len(result[c].errors) = Len(attempts[c])
            /\ \A i \in DOMAIN attempts[c] :
                   result[c].errors[i].provider = attempts[c][i].provider

\* C3: a returned dict has success=true exactly when its content is non-empty
\* and its provider is one of the configured providers; with success=false the
\* content is empty and the provider is None.
C3_ResultShape ==
    \A c \in Callers :
        gen_pc[c] = "done" =>
            /\ result[c].success <=>
                   (result[c].content \notin {"", NoneV} /\ result[c].provider \in Providers)
            /\ ~result[c].success =>
                   (result[c].content = "" /\ result[c].provider = NoneV)

\* a call succeeded on its third provider after an empty answer and an error
C3_Witness ==
    \E c \in Callers :
        /\ gen_pc[c] = "done" /\ result[c].success
        /\ Len(attempts[c]) = 3 /\ Len(result[c].errors) = 1
        /\ \E i \in 1 .. 2 : ~attempts[c][i].raised /\ attempts[c][i].value = ""

\* C4: no exception leaves generate_text, whatever the providers answer.
C4_NeverRaises == \A c \in Callers : gen_pc[c] # "raised"

\* a call returned after a missing key, a blocked generation and a timeout
C4_Witness ==
    \E c \in Callers :
        /\ gen_pc[c] = "done" /\ ~result[c].success
        /\ result[c].errors =
               << ErrorMsg("groq", "Groq API key not configured"),
                  ErrorMsg("gemini", "Gemini blocked generation: SAFETY"),
                  ErrorMsg("ollama", "Ollama request timed out") >>

\* C5: when some provider of a call returns non-empty text, the call returns
\* success=true with the first such provider and its content, and errors holds
\* one entry for each provider attempted before it.
C5_FirstSuccessWins ==
    \A c \in Callers :
        (gen_pc[c] = "done" /\ \E i \in DOMAIN attempts[c] : AttemptGaveText(attempts[c][i])) =>
            LET k == CHOOSE i \in DOMAIN attempts[c] :
                         /\ AttemptGaveText(attempts[c][i])
                         /\ \A j \in 1 .. (i - 1) : ~AttemptGaveText(attempts[c][j])
            IN  /\ result[c].success
                /\ result[c].provider = attempts[c][k].provider
                /\ result[c].content = attempts[c][k].value
                /\ Len(result[c].errors) = k - 1
                /\ \A i \in 1 .. (k - 1) :
                       result[c].errors[i].provider = attempts[c][i].provider

\* whether the provider's method gets as far as the HTTP exchange
HasKey(provider, keys) ==
    CASE provider = "groq" -> keys.GROQ_API_KEY
      [] provider = "gemini" -> keys.GOOGLE_API_KEY
      [] provider = "ollama" -> TRUE

\* exchanges that fail in transport: no connection, or no answer in time
TransportFailures == {r \in Responses : r.kind \in {"timeout", "connect_error"}}

\* the provider answers 429, or gemini answers finishReason SAFETY
RateLimitedOrBlocked(provider, resp) ==
    \/ resp.kind = "http_429"
    \/ provider = "gemini" /\ resp.kind = "content" /\ resp.finish = "blocked"

\* the call stays in the loop on the provider it has just tried
RetriesSameProvider(c) == gen_pc'[c] = "loop" /\ idx'[c] = idx[c]

\* C21: a provider whose exchange fails with a transport error or a timeout
\* is tried again by the same call before the next provider (a retry budget of
\* at least one), and a provider that answers rate-limited or blocked is not
\* tried again by that call.
C21_TransportFailureRetried ==
    [][\A c \in Callers, resp \in Responses :
          ( /\ gen_pc[c] = "loop"
            /\ HasKey(providers[c][idx[c]], settings)
            /\ GenAttempt(c, resp) ) =>
              /\ resp \in TransportFailures => RetriesSameProvider(c)
              /\ RateLimitedOrBlocked(providers[c][idx[c]], resp) =>
                     ~RetriesSameProvider(c)]_vars

\* a body with text whose generation the provider cut off at the token limit
\* (finish_reason "length", finishReason "MAX_TOKENS")
TruncatedResponses ==
    {r \in Responses : r.kind = "content" /\ r.finish = "length" /\ r.content \in Texts}

\* C22: when groq or gemini answers with text flagged as length-truncated, the
\* call ends there with success=true, that provider, and content equal to the
\* provider's content.
C22_TruncatedReturnedAsIs ==
    [][\A c \in Callers, resp \in TruncatedResponses :
          ( /\ gen_pc[c] = "loop"
            /\ providers[c][idx[c]] \in {"groq", "gemini"}
            /\ HasKey(providers[c][idx[c]], settings)
            /\ GenAttempt(c, resp) ) =>
              /\ gen_pc'[c] = "done"
              /\ result'[c].success
              /\ result'[c].provider = providers[c][idx[c]]
              /\ result'[c].content = resp.content]_vars

\* C34: in one call the order tried is a permutation of the three providers,
\* the attempts follow it, so no provider is attempted twice, and an attempt
\* that returned non-empty text is the call's last.
C34_EachProviderOnce ==
    \A c \in Callers :
        gen_pc[c] # "idle" =>
            /\ Len(providers[c]) = Cardinality(Providers)
            /\ {providers[c][i] : i \in DOMAIN providers[c]} = Providers
            /\ Len(attempts[c]) <= Len(providers[c])
            /\ \A i \in DOMAIN attempts[c] : attempts[c][i].provider = providers[c][i]
            /\ \A i, j \in DOMAIN attempts[c] :
                   i # j => attempts[c][i].provider # attempts[c][j].provider
            /\ \A i \in DOMAIN attempts[c] :
                   (~attempts[c][i].raised /\ Truthy(attempts[c][i].value)) =>
                       i = Len(attempts[c]) /\ gen_pc[c] \in {"done", "raised"}

C34_Witness ==
    \E c \in Callers :
        /\ gen_pc[c] = "done" /\ result[c].success
        /\ Len(attempts[c]) = 3
        /\ attempts[c][1].provider = "gemini" /\ attempts[c][3].provider = "ollama"

\* call c ends in this step, with success
SucceedsNow(c) == gen_pc[c] = "loop" /\ gen_pc'[c] = "done" /\ result'[c].success

\* C32: with calls interleaved, the pointer changes only in a step in which a
\* call succeeds, and to that call's provider (so it is unset or the provider
\* of a call that succeeded, and a call whose providers all fail leaves it
\* alone); when a call succeeds with provider P the pointer is P.
C32_PointerTracksSuccess ==
    [][/\ (last_successful_provider' # last_successful_provider =>
              \E c \in Callers :
                  SucceedsNow(c) /\ result'[c].provider = last_successful_provider')
        /\ (\A d \in Callers :
              SucceedsNow(d) => last_successful_provider' = result'[d].provider)]_vars

(***************************************************************************)
(* OrchestratorAgent (API_3_imp/TripCraft_AI/agents/orchestrator.py)       *)
(***************************************************************************)
\* agent_names = ["destination", "transport", "accommodation", "dining"]
agent_names == <<"destination", "transport", "accommodation", "dining">>

Phase1Names == {agent_names[i] : i \in DOMAIN agent_names}

\* the agent types execute looks up in self.agents
AgentTypes == Phase1Names \cup {"budget", "audio_tour"}

\* what a worker's execute can do: return a fragment, return a dict that
\* reports an error, or raise
WorkerOutcomes == {"fragment", "error_payload", "raises"}

\* a request dict: the include_audio_tour flag, and whether json.dumps accepts
\* every value in it (a datetime.date, which TravelDates admits, is not accepted)
Requests == [include_audio_tour : BOOLEAN, serializable : BOOLEAN]

NoRequest == [include_audio_tour |-> FALSE, serializable |-> TRUE]

\* the empty dict
EmptyDict == [k \in {} |-> NoneV]

\* the value a worker hands back
Fragment(by) == [kind |-> "fragment", by |-> by]

\* {"error": ...}
ErrorMarker(by) == [kind |-> "error", by |-> by]

\* the place of a task that has not finished
Pending(by) == [kind |-> "pending", by |-> by]

\* an exception instance, as gather(return_exceptions=True) returns it
ExceptionValue(by) == [kind |-> "exception", by |-> by]

\* OrchestratorAgent._execute_agent: the value of the coroutine
ExecuteAgent_NoCatch(agent_type, registered, outcome) ==
    IF agent_type \in registered
        THEN CASE outcome = "fragment" -> Fragment(agent_type)
               [] outcome = "error_payload" -> ErrorMarker(agent_type)
               [] outcome = "raises" -> ExceptionValue(agent_type)
        ELSE ErrorMarker(agent_type)

ExecuteAgent(agent_type, registered, outcome) ==
    IF agent_type \in registered
        THEN CASE outcome = "fragment" -> Fragment(agent_type)
               [] outcome = "error_payload" -> ErrorMarker(agent_type)
               [] outcome = "raises" -> ErrorMarker(agent_type)
        ELSE ErrorMarker(agent_type)

\* lines 45-54: the core tasks, one per registered core agent, in source order
CoreTasks(registered) == SelectSeq(agent_names, LAMBDA a : a \in registered)

\* "await asyncio.gather(*core_tasks, return_exceptions=True)" resumes
GatherDone_AnyTask(states) ==
    Len(states) = 0 \/ \E i \in DOMAIN states : states[i] = "done"

GatherDone(states) == \A i \in DOMAIN states : states[i] = "done"

\* lines 59-62: the dict built from core_results
ProcessCoreResults(cr) ==
    LET kept == {i \in DOMAIN cr : cr[i].kind # "exception" /\ i <= Len(agent_names)}
    IN  [k \in {agent_names[i] : i \in kept} |->
            cr[CHOOSE i \in kept : agent_names[i] = k]]

\* d[k] = v
DictSet(d, k, v) == [x \in DOMAIN d \cup {k} |-> IF x = k THEN v ELSE d[x]]

\* execute has not returned a dict
NoReturn == [coordination_plan |-> "", agent_results |-> EmptyDict, status |-> ""]

\* line 65: the budget worker is run
RunsBudget(registered) == "budget" \in registered

\* line 69: the audio tour worker is run
RunsAudioTour_IgnoresFlag(registered, req) == "audio_tour" \in registered

RunsAudioTour(registered, req) == "audio_tour" \in registered /\ req.include_audio_tour

OrchInit ==
    /\ agents = {}
    /\ orch_pc = "idle"
    /\ request = NoRequest
    /\ coordination_plan = ""
    /\ core_tasks = <<>>
    /\ task_state = <<>>
    /\ task_outcome = <<>>
    /\ core_results = <<>>
    /\ results = EmptyDict
    /\ dependent_input = EmptyDict
    /\ orch_return = NoReturn

\* OrchestratorAgent.register_agent
RegisterAgent(agent_type) ==
    /\ orch_pc = "idle"
    /\ agent_type \notin agents
    /\ agents' = agents \cup {agent_type}
    /\ UNCHANGED <<orch_pc, request, coordination_plan, core_tasks, task_state,
                   task_outcome, core_results, results, dependent_input, orch_return>>
    /\ OrchOnly

\* execute up to "await self.call_ollama(...)" (lines 21-39): the prompt is built
\* with json.dumps(request), which raises TypeError on a value it cannot encode
ExecuteStart(req) ==
    /\ orch_pc = "idle"
    /\ request' = req
    /\ orch_pc' = IF req.serializable THEN "coordinating" ELSE "raised"
    /\ coordination_plan' = ""
    /\ core_tasks' = <<>>
    /\ task_state' = <<>>
    /\ task_outcome' = <<>>
    /\ core_results' = <<>>
    /\ results' = EmptyDict
    /\ dependent_input' = EmptyDict
    /\ orch_return' = NoReturn
    /\ UNCHANGED agents
    /\ OrchOnly

\* call_ollama returns (text, or "" when the generation failed); lines 42-56
\* create the core tasks and hand them to gather
Coordinate(plan) ==
    /\ orch_pc = "coordinating"
    /\ coordination_plan' = plan
    /\ core_tasks' = CoreTasks(agents)
    /\ task_state' = [i \in DOMAIN CoreTasks(agents) |-> "pending"]
    /\ task_outcome' = [i \in DOMAIN CoreTasks(agents) |-> "none"]
    /\ core_results' = [i \in DOMAIN CoreTasks(agents) |-> Pending(CoreTasks(agents)[i])]
    /\ orch_pc' = "gather"
    /\ UNCHANGED <<agents, request, results, dependent_input, orch_return>>
    /\ OrchOnly

\* gather (line 56) wraps every coroutine of core_tasks in a task at once: a
\* task that has not started can start, whatever the other tasks are doing
MayStart_OneAtATime(states, i) ==
    states[i] = "pending" /\ \A j \in 1 .. (i - 1) : states[j] = "done"

MayStart(states, i) == states[i] = "pending"

\* a core task starts: _execute_agent runs up to "await agent.execute(request)"
TaskStart(i) ==
    /\ orch_pc = "gather"
    /\ i \in DOMAIN task_state
    /\ MayStart(task_state, i)
    /\ task_state' = [task_state EXCEPT ![i] = "running"]
    /\ UNCHANGED <<agents, orch_pc, request, coordination_plan, core_tasks,
                   task_outcome, core_results, results, dependent_input, orch_return>>
    /\ OrchOnly

\* the worker of a core task returns or raises, and the task finishes
TaskFinish(i, outcome) ==
    /\ orch_pc = "gather"
    /\ i \in DOMAIN task_state
    /\ task_state[i] = "running"
    /\ task_state' = [task_state EXCEPT ![i] = "done"]
    /\ task_outcome' = [task_outcome EXCEPT ![i] = outcome]
    /\ core_results' = [core_results EXCEPT ![i] = ExecuteAgent(core_tasks[i], agents, outcome)]
    /\ UNCHANGED <<agents, orch_pc, request, coordination_plan, core_tasks, results,
                   dependent_input, orch_return>>
    /\ OrchOnly

\* the dict of lines 73-77
ReturnValue(plan, res) ==
    [coordination_plan |-> plan, agent_results |-> res, status |-> "completed"]

\* where execute goes after the budget step: the audio tour worker, or the return
AfterBudget_CoreResultsOnly(res) ==
    IF RunsAudioTour(agents, request)
        THEN /\ orch_pc' = "audio_tour"
             /\ dependent_input' =
                    DictSet(dependent_input, "audio_tour",
                            [k \in DOMAIN res \ {"budget"} |-> res[k]])
             /\ orch_return' = NoReturn
        ELSE /\ orch_pc' = "returned"
             /\ dependent_input' = dependent_input
             /\ orch_return' = ReturnValue(coordination_plan, res)

AfterBudget(res) ==
    IF RunsAudioTour(agents, request)
        THEN /\ orch_pc' = "audio_tour"
             /\ dependent_input' = DictSet(dependent_input, "audio_tour", res)
             /\ orch_return' = NoReturn
        ELSE /\ orch_pc' = "returned"
             /\ dependent_input' = dependent_input
             /\ orch_return' = ReturnValue(coordination_plan, res)

\* gather resumes; lines 58-62 build results; execute goes on to the first
\* dependent worker that runs (lines 65-71), or returns (lines 73-77)
Join ==
    /\ orch_pc = "gather"
    /\ GatherDone(task_state)
    /\ LET res == ProcessCoreResults(core_results)
       IN  /\ results' = res
           /\ IF RunsBudget(agents)
                 THEN /\ orch_pc' = "budget"
                      /\ dependent_input' = DictSet(EmptyDict, "budget", res)
                      /\ orch_return' = NoReturn
                 ELSE AfterBudget(res)
    /\ UNCHANGED <<agents, request, coordination_plan, core_tasks, task_state,
                   task_outcome, core_results>>
    /\ OrchOnly

\* the budget worker returns or raises (line 67); then lines 69-77
BudgetFinish(outcome) ==
    /\ orch_pc = "budget"
    /\ LET value == ExecuteAgent("budget", agents, outcome)
           res == DictSet(results, "budget", value)
       IN  IF value.kind = "exception"
             THEN /\ orch_pc' = "raised"
                  /\ UNCHANGED <<results, dependent_input, orch_return>>
             ELSE /\ results' = res
                  /\ AfterBudget(res)
    /\ UNCHANGED <<agents, request, coordination_plan, core_tasks, task_state,
                   task_outcome, core_results>>
    /\ OrchOnly

\* the audio tour worker returns or raises (line 71); then lines 73-77
AudioTourFinish(outcome) ==
    /\ orch_pc = "audio_tour"
    /\ LET value == ExecuteAgent("audio_tour", agents, outcome)
           res == DictSet(results, "audio_tour", value)
       IN  IF value.kind = "exception"
             THEN /\ orch_pc' = "raised"
                  /\ UNCHANGED <<results, orch_return>>
             ELSE /\ results' = res
                  /\ orch_pc' = "returned"
                  /\ orch_return' = ReturnValue(coordination_plan, res)
    /\ UNCHANGED <<agents, request, coordination_plan, core_tasks, task_state,
                   task_outcome, core_results, dependent_input>>
    /\ OrchOnly

\* the caller of execute takes the returned dict, or the exception
ExecuteEnd ==
    /\ orch_pc \in {"returned", "raised"}
    /\ orch_pc' = "idle"
    /\ request' = NoRequest
    /\ coordination_plan' = ""
    /\ core_tasks' = <<>>
    /\ task_state' = <<>>
    /\ task_outcome' = <<>>
    /\ core_results' = <<>>
    /\ results' = EmptyDict
    /\ dependent_input' = EmptyDict
    /\ orch_return' = NoReturn
    /\ UNCHANGED agents
    /\ OrchOnly

OrchNext ==
    \/ \E a \in AgentTypes : RegisterAgent(a)
    \/ \E req \in Requests : ExecuteStart(req)
    \/ \E plan \in {"", "plan"} : Coordinate(plan)
    \/ \E i \in DOMAIN agent_names : TaskStart(i)
    \/ \E i \in DOMAIN agent_names, o \in WorkerOutcomes : TaskFinish(i, o)
    \/ Join
    \/ \E o \in WorkerOutcomes : BudgetFinish(o)
    \/ \E o \in WorkerOutcomes : AudioTourFinish(o)
    \/ ExecuteEnd

(***************************************************************************)
(* Properties of OrchestratorAgent.execute                                 *)
(***************************************************************************)
\* the keys of agent_results a dependent worker reads
BudgetDependencies == {"transport", "accommodation", "dining", "destination"}

AudioTourDependencies == {"destination", "accommodation", "dining"}

Dependencies(worker) ==
    IF worker = "budget" THEN BudgetDependencies ELSE AudioTourDependencies

\* C6: when exactly one of the N launched core workers raises and the others
\* return fragments, the returned agent_results has exactly N core entries:
\* the N-1 fragments of the other workers and one error marker made from the
\* failing worker's exception.
C6_FailureIsolation ==
    ( /\ orch_pc = "returned"
      /\ Len(core_tasks) >= 1
      /\ Cardinality({i \in DOMAIN task_outcome : task_outcome[i] = "raises"}) = 1
      /\ \A i \in DOMAIN task_outcome : task_outcome[i] \in {"raises", "fragment"} ) =>
        LET res == orch_return.agent_results
            keys == DOMAIN res \cap Phase1Names
        IN  /\ Cardinality(keys) = Len(core_tasks)
            /\ Cardinality({k \in keys : res[k].kind = "fragment"}) = Len(core_tasks) - 1
            /\ Cardinality({k \in keys : res[k].kind = "error"}) = 1
            /\ \A i \in DOMAIN core_tasks :
                   \E k \in keys :
                       res[k] = IF task_outcome[i] = "raises"
                                   THEN ErrorMarker(core_tasks[i])
                                   ELSE Fragment(core_tasks[i])

\* execute returned after transport, one of four core workers, raised
C6_Witness ==
    /\ orch_pc = "returned"
    /\ core_tasks = agent_names
    /\ task_outcome = <<"fragment", "raises", "fragment", "fragment">>

\* C7: execute never raises: every run ends by returning a dict with a
\* status, whatever the request, the workers and the generation layer do.
C7_NeverRaises ==
    /\ orch_pc # "raised"
    /\ orch_pc = "returned" => orch_return.status = "completed"

\* C8: no dependent worker (budget, audio_tour) is running while a launched
\* core task has not finished.
C8_DependentsAfterJoin ==
    orch_pc \in {"budget", "audio_tour"} =>
        \A i \in DOMAIN task_state : task_state[i] = "done"

\* budget runs after four core workers, one of which raised
C8_Witness ==
    /\ orch_pc = "budget"
    /\ Len(core_tasks) = 4
    /\ \E i \in DOMAIN task_outcome : task_outcome[i] = "raises"

\* C9: the agent_results handed to a dependent worker has a key for every
\* registered core worker the dependent worker reads.
C9_DependencyKeys ==
    \A d \in DOMAIN dependent_input :
        \A w \in Dependencies(d) \cap agents : w \in DOMAIN dependent_input[d]

\* C25: budget runs before audio_tour: while budget runs the audio tour worker
\* has neither been handed its input nor left a result, and while audio_tour
\* runs with budget registered, budget's result is in results and in the
\* agent_results handed to audio_tour.
C25_BudgetBeforeAudioTour ==
    /\ orch_pc = "budget" =>
          /\ "audio_tour" \notin DOMAIN dependent_input
          /\ "audio_tour" \notin DOMAIN results
    /\ (orch_pc = "audio_tour" /\ "budget" \in agents) =>
          /\ "budget" \in DOMAIN dependent_input
          /\ "budget" \in DOMAIN results
          /\ "budget" \in DOMAIN dependent_input["audio_tour"]
          /\ dependent_input["audio_tour"]["budget"] = results["budget"]

\* audio_tour runs after a budget worker that raised
C25_Witness ==
    /\ orch_pc = "audio_tour"
    /\ "budget" \in DOMAIN dependent_input["audio_tour"]
    /\ dependent_input["audio_tour"]["budget"] = ErrorMarker("budget")

\* C26: the audio tour worker is handed its input exactly in the runs where
\* audio_tour is registered and the request has include_audio_tour set; a run
\* that returns has an audio_tour entry exactly in those runs, and the other
\* entries are what they were before the audio tour step.
C26_AudioTourOnlyWhenAsked ==
    LET asked == "audio_tour" \in agents /\ request.include_audio_tour
    IN  /\ orch_pc = "audio_tour" => asked
        /\ "audio_tour" \in DOMAIN dependent_input => asked
        /\ orch_pc = "returned" =>
              LET res == orch_return.agent_results
                  others == [k \in DOMAIN res \ {"audio_tour"} |-> res[k]]
              IN  /\ ("audio_tour" \in DOMAIN dependent_input) = asked
                  /\ ("audio_tour" \in DOMAIN res) = asked
                  /\ ~asked => res = results
                  /\ asked => others = dependent_input["audio_tour"]

\* a run with audio_tour registered and the flag not set returned the results
\* of its core workers and of budget
C26_Witness ==
    /\ orch_pc = "returned"
    /\ {"audio_tour", "budget"} \subseteq agents
    /\ ~request.include_audio_tour
    /\ Len(core_tasks) >= 1
    /\ "budget" \in DOMAIN orch_return.agent_results
    /\ "audio_tour" \notin DOMAIN orch_return.agent_results

\* the workers a run schedules: the registered core workers, budget if
\* registered, audio_tour if registered and asked for
Scheduled ==
    (agents \cap Phase1Names)
        \cup (IF "budget" \in agents THEN {"budget"} ELSE {})
        \cup (IF "audio_tour" \in agents /\ request.include_audio_tour
                 THEN {"audio_tour"} ELSE {})

\* C27: the agent_results a run returns has an entry, a fragment or an error
\* marker, for each worker the run scheduled and for no other worker.
C27_OneEntryPerScheduledWorker ==
    orch_pc = "returned" =>
        /\ DOMAIN orch_return.agent_results = Scheduled
        /\ \A k \in DOMAIN orch_return.agent_results :
               orch_return.agent_results[k].kind \in {"fragment", "error"}

\* C33: whichever of the four core workers are registered, every entry that
\* agent_results holds under a core worker's name was produced by that worker.
C33_EntryUnderProducersName ==
    \A k \in DOMAIN results \cap Phase1Names : results[k].by = k

\* C28: while gather waits, there is a task for every registered core worker,
\* every task that has not started can start and every task that runs can
\* finish, whatever the states of the other tasks.
C28_ConcurrentFanOut ==
    orch_pc = "gather" =>
        /\ core_tasks = CoreTasks(agents)
        /\ DOMAIN task_state = DOMAIN core_tasks
        /\ \A i \in DOMAIN task_state :
               /\ task_state[i] = "pending" => ENABLED TaskStart(i)
               /\ task_state[i] = "running" =>
                      \A o \in WorkerOutcomes : ENABLED TaskFinish(i, o)

\* the four core workers are in progress at the same time
C28_Witness ==
    /\ orch_pc = "gather"
    /\ core_tasks = agent_names
    /\ \A i \in DOMAIN task_state : task_state[i] = "running"

\* C29: the end of a core task, also of one whose worker raised, leaves the
\* other tasks and the wait of gather as they are; when every started worker
\* eventually returns or raises, a run that waits in gather eventually returns,
\* with every core task finished.
C29_FailureBlocksNothing ==
    /\ [][\A i \in DOMAIN task_state :
             (task_state[i] = "running" /\ task_state'[i] = "done") =>
                 /\ orch_pc' = "gather"
                 /\ \A j \in DOMAIN task_state \ {i} : task_state'[j] = task_state[j]]_vars
    /\ (orch_pc = "gather")
           ~> ( /\ orch_pc = "returned"
                /\ \A i \in DOMAIN task_state : task_state[i] = "done" )

\* a run returned after a core worker and the budget worker raised
C29_Witness ==
    /\ orch_pc = "returned"
    /\ Len(core_tasks) >= 2
    /\ \E i \in DOMAIN task_outcome : task_outcome[i] = "raises"
    /\ "budget" \in DOMAIN orch_return.agent_results
    /\ orch_return.agent_results["budget"] = ErrorMarker("budget")

(***************************************************************************)
(* ConnectionManager and websocket_endpoint (API/TripCraft_AI/api/realtime.py) *)
(***************************************************************************)
\* the trip ids of the websocket paths
Trips == {"trip" \o ToString(i) : i \in 1 .. NumTrips}

\* the WebSocket objects
Handles == {"ws" \o ToString(i) : i \in 1 .. NumHandles}

\* no websocket
NoHandle == "no websocket"

\* no close() was called
NoCode == "not closed"

\* close(code=1008, reason="Too many connections")
TooManyConnections == "1008"

\* close(): the default code
NormalClosure == "1000"

\* the messages a client sends
ClientMessages == {"ping", "get_updates", "trigger_replan", "other", "malformed"}

\* a message of the given type, sent with send_text on websocket h
Sent(h, type) == [to |-> h, type |-> type]

NothingSent == Sent(NoHandle, "nothing")

\* del d[k]
DictDel(d, k) == [x \in DOMAIN d \ {k} |-> d[x]]

\* ConnectionManager.disconnect: the dict and the counter it leaves
Disconnect_KeepsEntry(conns, count, trip_id) == [conns |-> conns, count |-> count]

Disconnect(conns, count, trip_id) ==
    IF trip_id \in DOMAIN conns
        THEN [conns |-> DictDel(conns, trip_id),
              count |-> IF count - 1 > 0 THEN count - 1 ELSE 0]
        ELSE [conns |-> conns, count |-> count]

\* the connection limit of websocket_endpoint is reached (line 66)
AtCapacity_OverLimitOnly(conns) == Cardinality(DOMAIN conns) > MaxConnections

AtCapacity(conns) == Cardinality(DOMAIN conns) >= MaxConnections

\* the dicts handed to send_update: the dict() of a RealtimeUpdate, whose
\* timestamp is a datetime object, and a dict of strings and numbers
RealtimeUpdateDict == "RealtimeUpdate.dict()"

PlainDict == "dict of json values"

Updates == {RealtimeUpdateDict, PlainDict}

\* json.dumps(update) returns text; it raises TypeError on a datetime
JsonSerializable_Always(update) == TRUE

JsonSerializable(update) == update # RealtimeUpdateDict

\* the callers of send_update: the POST /events/{trip_id} handler, and any
\* other code that holds the global manager
SendUpdateCallers == {"handle_external_event", "send_update"}

\* the bodies of POST /events/{trip_id}: one RealtimeUpdate accepts, and one
\* whose "type" is not a string, which RealtimeUpdate rejects
Events == {"valid", "invalid"}

\* what the caller of the publish gets: the JSONResponse of
\* handle_external_event, its HTTPException, or send_update's None
EventProcessed == "event_processed"

InternalServerError == "HTTPException 500"

\* no publish was made
NoPublish ==
    [pc |-> "idle", via |-> "", target |-> NoHandle,
     delivered |-> FALSE, failed |-> FALSE, removed |-> NoHandle, outcome |-> ""]

\* what the caller gets when send_update has returned
PublishOutcome(via) ==
    IF via = "handle_external_event" THEN EventProcessed ELSE NoneV

\* the caller of send_update has taken its return: the record of a call that
\* has returned is dropped by the next step
Forgotten(p) == IF p.pc = "returned" THEN NoPublish ELSE p

RealtimeInit ==
    /\ publish = NoPublish
    /\ active_connections = [k \in {} |-> NoHandle]
    /\ connection_count = 0
    /\ ws_pc = [h \in Handles |-> "new"]
    /\ ws_trip = [h \in Handles |-> ""]
    /\ ws_old = [h \in Handles |-> NoHandle]
    /\ ws_open = [h \in Handles |-> TRUE]
    /\ close_code = [h \in Handles |-> NoCode]
    /\ ws_sent = NothingSent
    /\ replaced = [h \in Handles |-> NoHandle]

\* websocket_endpoint from its start to the first suspension: the limit check
\* (lines 66-69), or ConnectionManager.connect up to "await ... .close()" or
\* "await websocket.accept()" (lines 26-33)
\* websockets are numbered in the order their requests arrive, and trip ids in
\* the order they are first connected to
InArrivalOrder(h, trip_id) ==
    /\ \E i \in 1 .. NumHandles :
          /\ h = "ws" \o ToString(i)
          /\ \A j \in 1 .. i - 1 : ws_pc["ws" \o ToString(j)] # "new"
    /\ \E i \in 1 .. NumTrips :
          /\ trip_id = "trip" \o ToString(i)
          /\ \A j \in 1 .. i - 1 : \E g \in Handles : ws_trip[g] = "trip" \o ToString(j)

WsArrive(h, trip_id) ==
    /\ ws_pc[h] = "new"
    /\ InArrivalOrder(h, trip_id)
    /\ ws_trip' = [ws_trip EXCEPT ![h] = trip_id]
    /\ IF AtCapacity(active_connections)
          THEN /\ close_code' = [close_code EXCEPT ![h] = TooManyConnections]
               /\ ws_open' = [ws_open EXCEPT ![h] = FALSE]
               /\ ws_pc' = [ws_pc EXCEPT ![h] = "rejected"]
               /\ UNCHANGED ws_old
          ELSE IF trip_id \in DOMAIN active_connections
          THEN /\ ws_old' = [ws_old EXCEPT ![h] = active_connections[trip_id]]
               /\ ws_pc' = [ws_pc EXCEPT ![h] = "closing_old"]
               /\ UNCHANGED <<close_code, ws_open>>
          ELSE /\ ws_pc' = [ws_pc EXCEPT ![h] = "accepting"]
               /\ UNCHANGED <<close_code, ws_open, ws_old>>
    /\ ws_sent' = NothingSent
    /\ publish' = Forgotten(publish)
    /\ UNCHANGED <<active_connections, connection_count, replaced>>
    /\ RealtimeOnly

\* "await self.active_connections[trip_id].close()" (lines 28-31): the old
\* connection gets a close; an error of close() is swallowed
WsCloseOld(h) ==
    /\ ws_pc[h] = "closing_old"
    /\ LET old == ws_old[h]
       IN  /\ ws_open' = [ws_open EXCEPT ![old] = FALSE]
           /\ close_code' = [close_code EXCEPT ![old] = IF @ = NoCode THEN NormalClosure ELSE @]
    /\ ws_pc' = [ws_pc EXCEPT ![h] = "accepting"]
    /\ ws_sent' = NothingSent
    /\ publish' = Forgotten(publish)
    /\ UNCHANGED <<active_connections, connection_count, ws_trip, ws_old, replaced>>
    /\ RealtimeOnly

\* "await websocket.accept()" returns; lines 34-36 register the connection
WsAccept(h) ==
    /\ ws_pc[h] = "accepting"
    /\ active_connections' = DictSet(active_connections, ws_trip[h], h)
    /\ connection_count' = connection_count + 1
    /\ replaced' = [replaced EXCEPT ![h] = ws_old[h]]
    /\ ws_pc' = [ws_pc EXCEPT ![h] = "greeting"]
    /\ ws_sent' = NothingSent
    /\ publish' = Forgotten(publish)
    /\ UNCHANGED <<ws_trip, ws_old, ws_open, close_code>>
    /\ RealtimeOnly

\* the handler's cleanup (lines 131-136): manager.disconnect(trip_id), and the
\* handler returns
HandlerCleanup(h) ==
    LET d == Disconnect(active_connections, connection_count, ws_trip[h])
    IN  /\ active_connections' = d.conns
        /\ connection_count' = d.count
        /\ ws_pc' = [ws_pc EXCEPT ![h] = "ended"]

\* lines 74-90: the "connected" message and the initial updates; send_text
\* raises on a connection that has been closed
WsGreet(h) ==
    /\ ws_pc[h] = "greeting"
    /\ IF ws_open[h]
          THEN /\ ws_sent' = Sent(h, "connected")
               /\ ws_pc' = [ws_pc EXCEPT ![h] = "loop"]
               /\ UNCHANGED <<active_connections, connection_count>>
          ELSE /\ HandlerCleanup(h)
               /\ ws_sent' = NothingSent
    /\ publish' = Forgotten(publish)
    /\ UNCHANGED <<ws_trip, ws_old, ws_open, close_code, replaced>>
    /\ RealtimeOnly

\* what serving a get_updates or trigger_replan message can do inside its try
\* block: the call of realtime_service returns data that json.dumps accepts,
\* or the call or json.dumps raises
ServeOutcomes == {"returns", "raises"}

\* the reply of the message loop to a message (lines 98-129)
Reply_FailureUnanswered(message, served) ==
    CASE message = "ping" -> "pong"
      [] message = "get_updates" /\ served = "returns" -> "updates"
      [] message = "trigger_replan" /\ served = "returns" -> "replan_result"
      [] OTHER -> "nothing"

Reply(message, served) ==
    CASE message = "ping" -> "pong"
      [] message = "get_updates" ->
            IF served = "returns" THEN "updates" ELSE "error"
      [] message = "trigger_replan" ->
            IF served = "returns" THEN "replan_result" ELSE "error"
      [] OTHER -> "nothing"

\* one turn of the message loop (lines 93-129): receive_text raises
\* WebSocketDisconnect on a closed connection, json.loads raises on text that
\* is not JSON; both end in the handler's cleanup
WsReceive(h, message, served) ==
    /\ ws_pc[h] = "loop"
    /\ IF ~ws_open[h] \/ message = "malformed"
          THEN /\ HandlerCleanup(h)
               /\ ws_sent' = NothingSent
          ELSE /\ ws_sent' = IF Reply(message, served) = "nothing"
                                  THEN NothingSent
                                  ELSE Sent(h, Reply(message, served))
               /\ UNCHANGED <<active_connections, connection_count, ws_pc>>
    /\ publish' = Forgotten(publish)
    /\ UNCHANGED <<ws_trip, ws_old, ws_open, close_code, replaced>>
    /\ RealtimeOnly

\* the client closes its end of an accepted connection
ClientDisconnect(h) ==
    /\ ws_pc[h] \in {"greeting", "loop"}
    /\ ws_open[h]
    /\ ws_open' = [ws_open EXCEPT ![h] = FALSE]
    /\ ws_sent' = NothingSent
    /\ publish' = Forgotten(publish)
    /\ UNCHANGED <<active_connections, connection_count, ws_pc, ws_trip, ws_old,
                   close_code, replaced>>
    /\ RealtimeOnly

\* send_update from its start to "await ... .send_text(...)" (lines 45-47), or
\* to its end when no connection is registered or json.dumps raises (lines
\* 48-50)
SendUpdateStart(via, trip_id, update) ==
    /\ publish.pc \in {"idle", "returned"}
    /\ IF trip_id \notin DOMAIN active_connections
          THEN /\ publish' = [NoPublish EXCEPT !.pc = "returned", !.via = via,
                                               !.outcome = PublishOutcome(via)]
               /\ UNCHANGED <<active_connections, connection_count>>
          ELSE IF ~JsonSerializable(update)
          THEN LET d == Disconnect(active_connections, connection_count, trip_id)
               IN  /\ active_connections' = d.conns
                   /\ connection_count' = d.count
                   /\ publish' = [NoPublish EXCEPT !.pc = "returned", !.via = via,
                                                       !.target = active_connections[trip_id],
                                                   !.failed = TRUE,
                                                   !.removed = active_connections[trip_id],
                                                   !.outcome = PublishOutcome(via)]
          ELSE /\ publish' = [NoPublish EXCEPT !.pc = "sending", !.via = via,
                                               !.target = active_connections[trip_id]]
               /\ UNCHANGED <<active_connections, connection_count>>

\* a direct call of manager.send_update(trip_id, update)
SendUpdate(trip_id, update) ==
    /\ SendUpdateStart("send_update", trip_id, update)
    /\ ws_sent' = NothingSent
    /\ UNCHANGED <<ws_pc, ws_trip, ws_old, ws_open, close_code, replaced>>
    /\ RealtimeOnly

\* POST /events/{trip_id} (lines 138-157) up to its first suspension: the
\* RealtimeUpdate is built and its dict() is handed to send_update; a
\* validation error is answered with HTTPException 500
HandleExternalEvent(trip_id, event) ==
    /\ IF event = "invalid"
          THEN /\ publish.pc \in {"idle", "returned"}
               /\ publish' = [NoPublish EXCEPT !.pc = "returned",
                                               !.via = "handle_external_event",
                                               !.outcome = InternalServerError]
               /\ UNCHANGED <<active_connections, connection_count>>
          ELSE SendUpdateStart("handle_external_event", trip_id, RealtimeUpdateDict)
    /\ ws_sent' = NothingSent
    /\ UNCHANGED <<ws_pc, ws_trip, ws_old, ws_open, close_code, replaced>>
    /\ RealtimeOnly

\* "await ... .send_text(...)" of send_update ends (lines 47-50): the text has
\* gone to the connection, or send_text raised on a closed connection and
\* the except branch calls disconnect(trip_id)
SendUpdateFinish ==
    /\ publish.pc = "sending"
    /\ IF ws_open[publish.target]
          THEN /\ ws_sent' = Sent(publish.target, "update")
               /\ publish' = [publish EXCEPT !.pc = "returned", !.delivered = TRUE,
                                             !.outcome = PublishOutcome(publish.via)]
               /\ UNCHANGED <<active_connections, connection_count>>
          ELSE LET trip_id == ws_trip[publish.target]
                   d == Disconnect(active_connections, connection_count, trip_id)
               IN  /\ active_connections' = d.conns
                   /\ connection_count' = d.count
                   /\ publish' = [publish EXCEPT
                                      !.pc = "returned", !.failed = TRUE,
                                      !.removed = IF trip_id \in DOMAIN active_connections
                                                     THEN active_connections[trip_id]
                                                     ELSE NoHandle,
                                      !.outcome = PublishOutcome(publish.via)]
                   /\ ws_sent' = NothingSent
    /\ UNCHANGED <<ws_pc, ws_trip, ws_old, ws_open, close_code, replaced>>
    /\ RealtimeOnly

RealtimeNext ==
    \/ \E t \in Trips, u \in Updates : SendUpdate(t, u)
    \/ \E t \in Trips, e \in Events : HandleExternalEvent(t, e)
    \/ SendUpdateFinish
    \/ \E h \in Handles, t \in Trips : WsArrive(h, t)
    \/ \E h \in Handles : WsCloseOld(h)
    \/ \E h \in Handles : WsAccept(h)
    \/ \E h \in Handles : WsGreet(h)
    \/ \E h \in Handles, m \in ClientMessages, s \in ServeOutcomes : WsReceive(h, m, s)
    \/ \E h \in Handles : ClientDisconnect(h)

(***************************************************************************)
(* Properties of the websocket connections                                 *)
(***************************************************************************)
\* C10: when a second connection to a trip has closed and replaced the first,
\* and no third connection was made to the trip, then the first has been sent
\* a close and, until the second disconnects, the second is the registered
\* one (the step in which a failed publish unregisters it set aside).
C10_SecondStaysRegistered ==
    \A h1 \in Handles, h2 \in Handles :
        ( /\ h1 # h2
          /\ replaced[h2] = h1
          /\ ws_pc[h2] \in {"greeting", "loop"}
          /\ ws_open[h2]
          /\ publish.removed # h2
          /\ \A h3 \in Handles \ {h1, h2} : ws_trip[h3] # ws_trip[h2] ) =>
            /\ close_code[h1] # NoCode
            /\ ws_trip[h2] \in DOMAIN active_connections
            /\ active_connections[ws_trip[h2]] = h2

\* C11: in every reachable state the number of registered connections is at
\* most the global limit, whatever the interleaving of connection attempts,
\* disconnects and publishes.
C11_CapNeverExceeded ==
    Cardinality(DOMAIN active_connections) <= MaxConnections

\* the websockets registered in a dict of connections
Registered(conns) == {conns[t] : t \in DOMAIN conns}

\* C12: a connection attempt made while the number of registered connections
\* equals the limit is closed with code 1008; in that step the dict of
\* connections, the counter and every other websocket stay as they were, and
\* the rejected websocket is never registered.
C12_RejectedAtCap ==
    /\ [](\A h \in Handles :
            ws_pc[h] = "rejected" =>
                /\ close_code[h] = TooManyConnections
                /\ h \notin Registered(active_connections))
    /\ [][\A h \in Handles :
            ( /\ ws_pc[h] = "new"
              /\ ws_pc'[h] # "new"
              /\ Cardinality(DOMAIN active_connections) = MaxConnections ) =>
                /\ ws_pc'[h] = "rejected"
                /\ close_code'[h] = TooManyConnections
                /\ active_connections' = active_connections
                /\ connection_count' = connection_count
                /\ \A g \in Handles \ {h} :
                      /\ ws_pc'[g] = ws_pc[g]
                      /\ ws_open'[g] = ws_open[g]
                      /\ close_code'[g] = close_code[g]]_vars

\* a websocket was rejected while the limit's worth of connections stayed
\* registered
C12_Witness ==
    \E h \in Handles :
        /\ ws_pc[h] = "rejected"
        /\ close_code[h] = TooManyConnections
        /\ Cardinality(DOMAIN active_connections) = MaxConnections

\* C13: when send_update has returned: if no connection was registered for the
\* trip, nothing was sent and nothing was unregistered, and the step changed
\* neither the dict nor the counter; if one was registered, the text was sent
\* to it or the sending failed; after a failure that connection is not
\* registered and the caller got its normal return, not an exception.
C13_SendUpdateContract ==
    /\ [](publish.pc = "returned" =>
            /\ publish.target = NoHandle =>
                  ~publish.delivered /\ ~publish.failed /\ publish.removed = NoHandle
            /\ publish.target # NoHandle => (publish.delivered # publish.failed)
            /\ publish.failed =>
                  /\ publish.target \notin Registered(active_connections)
                  /\ publish.outcome = PublishOutcome(publish.via))
    /\ [][( /\ publish' # publish
            /\ publish'.pc = "returned"
            /\ publish'.target = NoHandle ) =>
                /\ active_connections' = active_connections
                /\ connection_count' = connection_count
                /\ ws_sent' = NothingSent]_vars

\* a send_text of send_update failed and its connection was unregistered
C13_Witness ==
    /\ publish.pc = "returned"
    /\ publish.via = "send_update"
    /\ publish.failed
    /\ publish.removed = publish.target
    /\ publish.target # NoHandle

\* C14: a connection leaves the dict only in a step of its own handler's
\* cleanup or of a failed publish that was sending to it: neither a failed
\* publish nor the disconnect of a replaced connection's handler removes a
\* connection that a later connect registered.
C14_OnlyOwnHandleUnregistered ==
    [][\A t \in DOMAIN active_connections :
            t \notin DOMAIN active_connections' =>
                \/ \E h \in Handles :
                      /\ ws_pc[h] # "ended"
                      /\ ws_pc'[h] = "ended"
                      /\ active_connections[t] = h
                \/ /\ publish' # publish
                   /\ publish'.failed
                   /\ publish'.target = active_connections[t]]_vars

\* C15: when POST /events/{trip_id} has returned for a trip that had a
\* connection registered, the update was delivered to that connection, the
\* connection was not unregistered, and the caller got "event_processed".
C15_EventDelivered ==
    ( /\ publish.pc = "returned"
      /\ publish.via = "handle_external_event"
      /\ publish.target # NoHandle ) =>
        /\ publish.delivered
        /\ publish.removed = NoHandle
        /\ publish.outcome = EventProcessed

\* the messages the message loop sends in reply
Replies == {"pong", "updates", "replan_result", "error"}

GetConnectionStats(conns, count) ==
    [total_connections |-> count, active_trips |-> DOMAIN conns]

\* C30: the total_connections that get_connection_stats reports is the
\* number of active_trips it reports, after any connects, evictions,
\* disconnects and failed publishes.
C30_StatsCountMatchesTrips ==
    LET stats == GetConnectionStats(active_connections, connection_count)
    IN  stats.total_connections = Cardinality(stats.active_trips)

(***************************************************************************)
(* TravelPlanningService.create_travel_plan                                *)
(* (API/TripCraft_AI/services/travel_service.py), RealtimeService          *)
(* (API_3_imp/TripCraft_AI/services/realtime_service.py) and the endpoints *)
(* that use a RealtimeService (API/TripCraft_AI/api/realtime.py, travel.py) *)
(***************************************************************************)
\* the two RealtimeService objects of the process: the one
\* TravelPlanningService.__init__ builds (travel_service.py line 44) and the
\* module-level one of api/realtime.py (line 16)
TravelInstance == "travel_service.realtime_service"

ApiInstance == "api.realtime.realtime_service"

Instances == {TravelInstance, ApiInstance}

\* the RealtimeService object the websocket handler and GET /health/{trip_id}
\* use: the module-level name realtime_service of api/realtime.py
ChannelInstance == ApiInstance

\* the requests of create_travel_plan
PlanRequests == [realtime_updates : BOOLEAN]

NoPlanRequest == [realtime_updates |-> FALSE]

\* the values of TravelPlanResponse.safety_info: a SafetyInfo object, or the
\* empty dict of line 100
SafetyInfoV == "SafetyInfo"

EmptySafetyInfo == "{}"

\* no response object
NoResponse == [kind |-> "none", trip_id |-> "", safety_info |-> NoneV]

\* _build_travel_response (lines 307-331): every field set, safety_info a
\* SafetyInfo
BuiltResponse(trip_id) ==
    [kind |-> "comprehensive", trip_id |-> trip_id, safety_info |-> SafetyInfoV]

\* _create_fallback_response (lines 130-207): every field set, safety_info a
\* SafetyInfo
FallbackResponse(trip_id) ==
    [kind |-> "fallback", trip_id |-> trip_id, safety_info |-> SafetyInfoV]

\* the plan stored by setup_monitoring
StoredPlan == "travel_plan"

\* no RealtimeService endpoint was called
NoCall == [op |-> "", instance |-> ApiInstance, trip_id |-> "", result |-> ""]

\* the dicts trigger_replanning returns
TripNotFound == "error: Trip not found"

ReplanningTriggered == "status: replanning_triggered"

\* RealtimeService.trigger_replanning (lines 76-86)
TriggerReplanningResult_NoCheck(monitored, trip_id) == ReplanningTriggered

TriggerReplanningResult(monitored, trip_id) ==
    IF trip_id \notin DOMAIN monitored
        THEN TripNotFound
        ELSE ReplanningTriggered

\* RealtimeService.get_updates (lines 60-74)
GetUpdatesResult(monitored, trip_id) ==
    IF trip_id \notin DOMAIN monitored THEN "[]" ELSE "[RealtimeUpdate]"

\* GET /health/{trip_id} (api/realtime.py lines 159-178)
TripHealth(monitored, trip_id) ==
    IF trip_id \in DOMAIN monitored THEN "monitored" ELSE "not_monitored"

\* no _monitor_trip task of the trip id is alive
NoTasks == [checking |-> 0, sleeping |-> 0]

\* the number of _monitor_trip tasks of a trip id that are alive
Running(tasks) == tasks.checking + tasks.sleeping

\* a step of a _monitor_trip task of the trip: it "continued" into the checks,
\* "checked" and went to sleep, "raised" in a check, or "ended" at the test
MonitorStep(trip_id, did) == [trip_id |-> trip_id, did |-> did]

\* the latest step was not one of a _monitor_trip task
NoStep == MonitorStep("", "")

\* "while trip_id in self.monitored_trips" (line 27)
StillMonitored_Always(monitored, trip_id) == TRUE

StillMonitored(monitored, trip_id) == trip_id \in DOMAIN monitored

ServiceInit ==
    /\ services \in [orchestrator : BOOLEAN, safety_service : BOOLEAN,
                      realtime_service : BOOLEAN]
    /\ monitored_trips = [i \in Instances |-> [t \in {} |-> StoredPlan]]
    /\ monitor_tasks = [t \in Trips |-> NoTasks]
    /\ monitor_step = NoStep
    /\ trips_created = 0
    /\ plan_pc = "idle"
    /\ plan_request = NoPlanRequest
    /\ plan_trip = ""
    /\ response = NoResponse
    /\ svc_call = NoCall

\* create_travel_plan from its start (lines 63-78) to the await of
\* orchestrator.execute or of _create_basic_plan; uuid4 gives a trip id no
\* earlier call had
PlanStart(req) ==
    /\ plan_pc \in {"idle", "returned"}
    /\ trips_created < NumTrips
    /\ trips_created' = trips_created + 1
    /\ plan_trip' = "trip" \o ToString(trips_created + 1)
    /\ plan_request' = req
    /\ response' = NoResponse
    /\ plan_pc' = "planning"
    /\ UNCHANGED <<services, monitored_trips, monitor_tasks, svc_call>>
    /\ monitor_step' = NoStep
    /\ ServiceOnly

\* the except branch of create_travel_plan (lines 111-114)
PlanFallback ==
    /\ response' = FallbackResponse(plan_trip)
    /\ plan_pc' = "returned"

\* orchestrator.execute returns or raises (line 78); without an orchestrator
\* _create_basic_plan returns (line 82)
PlanOrchestrated(outcome) ==
    /\ plan_pc = "planning"
    /\ IF services.orchestrator /\ outcome = "raises"
          THEN PlanFallback
          ELSE /\ plan_pc' = "building"
               /\ UNCHANGED response
    /\ UNCHANGED <<services, monitored_trips, monitor_tasks, trips_created,
                   plan_request, plan_trip, svc_call>>
    /\ monitor_step' = NoStep
    /\ ServiceOnly

\* _build_travel_response returns or raises (lines 85-89)
PlanBuilt(outcome) ==
    /\ plan_pc = "building"
    /\ IF outcome = "raises"
          THEN PlanFallback
          ELSE /\ response' = BuiltResponse(plan_trip)
               /\ plan_pc' = IF services.safety_service THEN "safety" ELSE "monitoring"
    /\ UNCHANGED <<services, monitored_trips, monitor_tasks, trips_created,
                   plan_request, plan_trip, svc_call>>
    /\ monitor_step' = NoStep
    /\ ServiceOnly

\* safety_service.get_safety_info returns or raises (lines 92-100)
PlanSafety(outcome) ==
    /\ plan_pc = "safety"
    /\ response' = [response EXCEPT !.safety_info =
                        IF outcome = "raises" THEN EmptySafetyInfo ELSE SafetyInfoV]
    /\ plan_pc' = "monitoring"
    /\ UNCHANGED <<services, monitored_trips, monitor_tasks, trips_created,
                   plan_request, plan_trip, svc_call>>
    /\ monitor_step' = NoStep
    /\ ServiceOnly

\* RealtimeService.setup_monitoring (lines 14-23) on one instance: the plan is
\* stored and a _monitor_trip task is created, which has not run yet
SetupMonitoring(monitored, tasks, instance, trip_id) ==
    [monitored |-> [monitored EXCEPT ![instance] = DictSet(@, trip_id, StoredPlan)],
     tasks |-> [tasks EXCEPT ![trip_id].sleeping = @ + 1]]

\* lines 102-109: monitoring is set up when the request asks for it, and the
\* response is returned
PlanMonitoring ==
    /\ plan_pc = "monitoring"
    /\ IF services.realtime_service /\ plan_request.realtime_updates
          THEN LET m == SetupMonitoring(monitored_trips, monitor_tasks,
                                        TravelInstance, plan_trip)
               IN  /\ monitored_trips' = m.monitored
                   /\ monitor_tasks' = m.tasks
          ELSE UNCHANGED <<monitored_trips, monitor_tasks>>
    /\ plan_pc' = "returned"
    /\ monitor_step' = NoStep
    /\ UNCHANGED <<services, trips_created, plan_request, plan_trip, response,
                   svc_call>>
    /\ ServiceOnly

\* the body of the loop of _monitor_trip (lines 28-43): the three checks, then
\* the sleep of 30 minutes; a check that raises ends the task
MonitorCheck(trip_id, outcome) ==
    /\ monitor_tasks[trip_id].checking > 0
    /\ monitor_tasks' = [monitor_tasks EXCEPT ![trip_id] =
                             IF outcome = "raises"
                                 THEN [@ EXCEPT !.checking = @ - 1]
                                 ELSE [checking |-> @.checking - 1,
                                       sleeping |-> @.sleeping + 1]]
    /\ monitor_step' = MonitorStep(trip_id, IF outcome = "raises" THEN "raised"
                                                                  ELSE "checked")
    /\ UNCHANGED <<services, monitored_trips, trips_created, plan_pc, plan_request,
                   plan_trip, response, svc_call>>
    /\ ServiceOnly

\* a suspended task runs: the new task for the first time, the sleeping one
\* when asyncio.sleep(1800) is over; the while condition is tested (line 27)
MonitorWake(trip_id) ==
    /\ monitor_tasks[trip_id].sleeping > 0
    /\ LET goes_on == StillMonitored(monitored_trips[TravelInstance], trip_id)
       IN  /\ monitor_tasks' = [monitor_tasks EXCEPT ![trip_id] =
                                    IF goes_on
                                        THEN [checking |-> @.checking + 1,
                                              sleeping |-> @.sleeping - 1]
                                        ELSE [@ EXCEPT !.sleeping = @ - 1]]
           /\ monitor_step' = MonitorStep(trip_id, IF goes_on THEN "continued"
                                                              ELSE "ended")
    /\ UNCHANGED <<services, monitored_trips, trips_created, plan_pc, plan_request,
                   plan_trip, response, svc_call>>
    /\ ServiceOnly

\* setup_monitoring called once more for a monitored trip id (lines 14-23), on
\* the travel service's instance
SetupMonitoringAgain(trip_id) ==
    /\ services.realtime_service
    /\ trip_id \in DOMAIN monitored_trips[TravelInstance]
    /\ Running(monitor_tasks[trip_id]) < MaxTasks
    /\ LET m == SetupMonitoring(monitored_trips, monitor_tasks, TravelInstance, trip_id)
       IN  /\ monitored_trips' = m.monitored
           /\ monitor_tasks' = m.tasks
    /\ monitor_step' = NoStep
    /\ UNCHANGED <<services, trips_created, plan_pc, plan_request, plan_trip,
                   response, svc_call>>
    /\ ServiceOnly

\* the session of a trip is destroyed: its entry is taken out of
\* monitored_trips
RemoveSession(trip_id) ==
    /\ services.realtime_service
    /\ trip_id \in DOMAIN monitored_trips[TravelInstance]
    /\ monitored_trips' = [monitored_trips EXCEPT ![TravelInstance] = DictDel(@, trip_id)]
    /\ monitor_step' = NoStep
    /\ UNCHANGED <<services, monitor_tasks, trips_created, plan_pc, plan_request,
                   plan_trip, response, svc_call>>
    /\ ServiceOnly

\* the record of an endpoint call
Call(op, instance, trip_id, res) ==
    [op |-> op, instance |-> instance, trip_id |-> trip_id, result |-> res]

\* what an endpoint that only reads a RealtimeService leaves alone
ReadOnly ==
    /\ monitor_step' = NoStep
    /\ UNCHANGED <<services, monitored_trips, monitor_tasks, trips_created, plan_pc,
                   plan_request, plan_trip, response>>

\* trigger_replanning, called by POST /plan/{trip_id}/replan on the travel
\* service's instance (travel.py line 252) or by a trigger_replan message on
\* the websocket (realtime.py line 117)
TriggerReplanning(instance, trip_id) ==
    /\ svc_call' = Call("trigger_replanning", instance, trip_id,
                        TriggerReplanningResult(monitored_trips[instance], trip_id))
    /\ ReadOnly
    /\ ServiceOnly

\* get_updates, called by GET /plan/{trip_id}/updates (travel.py line 264) or
\* by a get_updates message on the websocket (realtime.py line 103)
GetUpdates(instance, trip_id) ==
    /\ svc_call' = Call("get_updates", instance, trip_id,
                        GetUpdatesResult(monitored_trips[instance], trip_id))
    /\ ReadOnly
    /\ ServiceOnly

\* GET /health/{trip_id}
GetTripHealth(trip_id) ==
    /\ svc_call' = Call("get_trip_health", ChannelInstance, trip_id,
                        TripHealth(monitored_trips[ChannelInstance], trip_id))
    /\ ReadOnly
    /\ ServiceOnly

PlanOutcomes == {"returns", "raises"}

ServiceNext ==
    \/ \E req \in PlanRequests : PlanStart(req)
    \/ \E o \in PlanOutcomes : PlanOrchestrated(o)
    \/ \E o \in PlanOutcomes : PlanBuilt(o)
    \/ \E o \in PlanOutcomes : PlanSafety(o)
    \/ PlanMonitoring
    \/ \E t \in Trips, o \in PlanOutcomes : MonitorCheck(t, o)
    \/ \E t \in Trips : MonitorWake(t)
    \/ \E i \in Instances, t \in Trips : TriggerReplanning(i, t)
    \/ \E i \in Instances, t \in Trips : GetUpdates(i, t)
    \/ \E t \in Trips : GetTripHealth(t)

\* the monitoring loops: plans that set monitoring up, the steps of the
\* _monitor_trip tasks, further calls of setup_monitoring and the end of sessions
MonitorNext ==
    \/ \E req \in PlanRequests : trips_created < MaxSessions /\ PlanStart(req)
    \/ \E o \in PlanOutcomes : PlanOrchestrated(o)
    \/ \E o \in PlanOutcomes : PlanBuilt(o)
    \/ \E o \in PlanOutcomes : PlanSafety(o)
    \/ PlanMonitoring
    \/ \E t \in Trips, o \in PlanOutcomes : MonitorCheck(t, o)
    \/ \E t \in Trips : MonitorWake(t)
    \/ \E t \in Trips : SetupMonitoringAgain(t)
    \/ \E t \in Trips : RemoveSession(t)

\* the event loop runs every task that is ready: a check that was awaited
\* returns or raises, and a sleep of 1800 seconds ends
MonitorFairness ==
    \A t \in Trips :
        /\ WF_vars(MonitorWake(t))
        /\ WF_vars(\E o \in PlanOutcomes : MonitorCheck(t, o))

(***************************************************************************)
(* Properties of the travel planning service and of RealtimeService        *)
(***************************************************************************)
\* the latest endpoint call was trigger_replanning for the trip, made in this
\* step
ReplanningStep(known) ==
    /\ svc_call' # svc_call
    /\ svc_call'.op = "trigger_replanning"
    /\ (svc_call'.trip_id \in DOMAIN monitored_trips[svc_call'.instance]) = known

\* C16: trigger_replanning for a trip id that is not in monitored_trips
\* returns the error dict, and the step leaves the orchestrator idle, the
\* monitored trips with their plans, the monitoring tasks, the plan call and
\* the websocket side (connections, publishes, messages) as they were.
C16_UnknownTripNoWork ==
    [][ReplanningStep(FALSE) =>
          /\ svc_call'.result = TripNotFound
          /\ UNCHANGED <<orchVars, rtVars, monitored_trips, monitor_tasks, plan_pc,
                         response>>]_vars

\* trigger_replanning answered the error for one trip while another trip of
\* the same instance was monitored
C16_Witness ==
    /\ svc_call.op = "trigger_replanning"
    /\ svc_call.result = TripNotFound
    /\ svc_call.trip_id \notin DOMAIN monitored_trips[svc_call.instance]
    /\ monitored_trips[svc_call.instance] # [t \in {} |-> StoredPlan]

\* C17: trigger_replanning for a monitored trip id starts the orchestrator,
\* stores a new plan for the trip and publishes an update.
C17_ReplanReplacesPlan ==
    [][ReplanningStep(TRUE) =>
          /\ orch_pc' # "idle"
          /\ monitored_trips' # monitored_trips
          /\ publish' # publish]_vars

\* C18: when create_travel_plan has returned the comprehensive response with
\* the realtime service built, GET /health/{trip_id} of the returned trip id
\* says monitored and the websocket's trigger_replan finds the trip exactly
\* when the request had realtime_updates set.
C18_MonitoredAfterPlan ==
    ( /\ plan_pc = "returned"
      /\ response.kind = "comprehensive"
      /\ services.realtime_service ) =>
        /\ (TripHealth(monitored_trips[ChannelInstance], plan_trip) = "monitored")
               = plan_request.realtime_updates
        /\ (TriggerReplanningResult(monitored_trips[ChannelInstance], plan_trip)
               # TripNotFound) = plan_request.realtime_updates

\* C19: create_travel_plan never raises, and the response it returns is the
\* comprehensive or the fallback response for its trip id with safety_info a
\* SafetyInfo object.
C19_AlwaysCompleteResponse ==
    /\ plan_pc # "raised"
    /\ plan_pc = "returned" =>
          /\ response.kind \in {"comprehensive", "fallback"}
          /\ response.trip_id = plan_trip
          /\ response.safety_info = SafetyInfoV

C24_OneLoopPerSession ==
    \A t \in Trips : Running(monitor_tasks[t]) <= 1

\* C39: a trip id that is in monitored_trips of a RealtimeService has a
\* _monitor_trip task that runs or is scheduled, also after a check of the
\* loop has raised.
C39_MonitoredHasLiveLoop ==
    \A i \in Instances, t \in Trips :
        t \in DOMAIN monitored_trips[i] => Running(monitor_tasks[t]) > 0

(***************************************************************************)
(* GroqClient (API/TripCraft_AI/services/groq_client.py)                   *)
(***************************************************************************)
\* how GET {base_url}/models of check_health ends (lines 22-33)
HealthOutcomes == {"200", "other status", "exception"}

\* how POST {base_url}/chat/completions of generate ends (lines 64-104):
\* status 200 with text, with empty text, with content null, or without
\* choices; status 429; another status; a timeout; another exception
PostOutcomes ==
    {"content", "empty content", "null content", "no choices", "429", "other status",
     "timeout", "exception"}

\* no call of generate was made
NoGroqCall == [pc |-> "idle", probe |-> "none", posted |-> FALSE, result |-> NoneV]

\* check_health: the value it stores in is_available and returns
CheckHealth(outcome) == outcome = "200"

\* generate goes on to the request after the test of lines 42-44
ProceedsAfterProbe_Never(healthy) == FALSE

ProceedsAfterProbe(healthy) == healthy

\* lines 76-104: is_available after the request, and the value returned
AfterPost_TimeoutMarksDown(available, outcome) ==
    CASE outcome = "content" -> [available |-> available, result |-> "text"]
      [] outcome = "empty content" -> [available |-> available, result |-> ""]
      [] outcome = "no choices" -> [available |-> available, result |-> NoneV]
      [] OTHER -> [available |-> FALSE, result |-> NoneV]

AfterPost(available, outcome) ==
    CASE outcome = "content" -> [available |-> available, result |-> "text"]
      [] outcome = "empty content" -> [available |-> available, result |-> ""]
      [] outcome \in {"no choices", "timeout"} ->
            [available |-> available, result |-> NoneV]
      [] OTHER -> [available |-> FALSE, result |-> NoneV]

GroqInit ==
    /\ is_available = TRUE
    /\ groq_call = NoGroqCall

\* generate up to its first await: the health check when the client is marked
\* unavailable (lines 42-43), else the request (line 67)
Entered(available) ==
    IF available
        THEN [NoGroqCall EXCEPT !.pc = "posting", !.posted = TRUE]
        ELSE [NoGroqCall EXCEPT !.pc = "probing"]

GroqGenerate ==
    /\ groq_call.pc \in {"idle", "returned"}
    /\ groq_call' = Entered(is_available)
    /\ UNCHANGED is_available
    /\ GroqOnly

\* check_health ends (lines 28-33, 43-44)
GroqProbed(outcome) ==
    /\ groq_call.pc = "probing"
    /\ is_available' = CheckHealth(outcome)
    /\ groq_call' = IF ProceedsAfterProbe(CheckHealth(outcome))
                        THEN [groq_call EXCEPT !.pc = "posting", !.posted = TRUE,
                                               !.probe = outcome]
                        ELSE [groq_call EXCEPT !.pc = "returned", !.probe = outcome]
    /\ GroqOnly

\* the request ends (lines 76-104)
GroqPosted(outcome) ==
    /\ groq_call.pc = "posting"
    /\ is_available' = AfterPost(is_available, outcome).available
    /\ groq_call' = [groq_call EXCEPT !.pc = "returned",
                                      !.result = AfterPost(is_available, outcome).result]
    /\ GroqOnly

GroqNext ==
    \/ GroqGenerate
    \/ \E o \in HealthOutcomes : GroqProbed(o)
    \/ \E o \in PostOutcomes : GroqPosted(o)

(***************************************************************************)
(* GroqClient.generate_with_retry (groq_client.py lines 106-126)           *)
(***************************************************************************)
\* the largest retries argument drawn; 2 is the default of the source
MaxRetries == 2

\* no call of generate_with_retry was made
NoRetry == [pc |-> "idle", retries |-> 0, attempt |-> 0, outcomes |-> <<>>,
            waits |-> <<>>, result |-> NoneV]

\* wait_time = 2 ** attempt
WaitTime_Doubling(attempt) == 2 * attempt

WaitTime(attempt) == 2 ^ attempt

RetryInit == retry = NoRetry

\* generate_with_retry(retries = r) is called; range(retries + 1) of a
\* non-negative r is not empty, so the loop is entered
RetryStart(r) ==
    /\ retry.pc \in {"idle", "returned"}
    /\ groq_call.pc \in {"idle", "returned"}
    /\ retry' = [NoRetry EXCEPT !.pc = "attempt", !.retries = r]
    /\ UNCHANGED groqVars
    /\ RetryOnly

\* line 115: the loop calls generate, which runs to its first await
RetryAttempt ==
    /\ retry.pc = "attempt"
    /\ retry' = [retry EXCEPT !.pc = "awaiting"]
    /\ groq_call' = Entered(is_available)
    /\ UNCHANGED is_available
    /\ RetryOnly

\* the health check of the generate call under way ends
RetryProbed(outcome) ==
    /\ retry.pc = "awaiting"
    /\ groq_call.pc = "probing"
    /\ is_available' = CheckHealth(outcome)
    /\ groq_call' = IF ProceedsAfterProbe(CheckHealth(outcome))
                        THEN [groq_call EXCEPT !.pc = "posting", !.posted = TRUE,
                                               !.probe = outcome]
                        ELSE [groq_call EXCEPT !.pc = "returned", !.probe = outcome]
    /\ UNCHANGED retry
    /\ RetryOnly

\* the request of the generate call under way ends
RetryPosted(outcome) ==
    /\ retry.pc = "awaiting"
    /\ groq_call.pc = "posting"
    /\ is_available' = AfterPost(is_available, outcome).available
    /\ groq_call' = [groq_call EXCEPT !.pc = "returned",
                                      !.result = AfterPost(is_available, outcome).result]
    /\ UNCHANGED retry
    /\ RetryOnly

\* generate has returned: lines 117-126, up to the end of the sleep
RetryResume ==
    /\ retry.pc = "awaiting"
    /\ groq_call.pc = "returned"
    /\ LET seen == Append(retry.outcomes, groq_call.result)
       IN  retry' =
               IF groq_call.result # NoneV
                   THEN [retry EXCEPT !.pc = "returned", !.outcomes = seen,
                                      !.result = groq_call.result]
               ELSE IF retry.attempt < retry.retries
                   THEN [retry EXCEPT !.pc = "attempt", !.outcomes = seen,
                                      !.attempt = @ + 1,
                                      !.waits = Append(@, WaitTime(retry.attempt))]
               ELSE [retry EXCEPT !.pc = "returned", !.outcomes = seen,
                                  !.result = NoneV]
    /\ UNCHANGED groqVars
    /\ RetryOnly

RetryNext ==
    \/ \E r \in 0 .. MaxRetries : RetryStart(r)
    \/ RetryAttempt
    \/ \E o \in HealthOutcomes : RetryProbed(o)
    \/ \E o \in PostOutcomes : RetryPosted(o)
    \/ RetryResume

\* C35: generate_with_retry(retries = r) makes at most r + 1 attempts; an
\* attempt that returns a value other than None is the last and its value is
\* returned; None is returned only after r + 1 attempts that all returned
\* None; the k-th failed attempt (from 0) is followed by a wait of 2^k
\* seconds, except the final attempt, which is followed by none.
C35_RetryBackoff ==
    LET made == Len(retry.outcomes)
        failed == Cardinality({i \in DOMAIN retry.outcomes : retry.outcomes[i] = NoneV})
    IN  /\ made <= retry.retries + 1
        /\ \A i \in DOMAIN retry.outcomes :
               retry.outcomes[i] # NoneV =>
                   i = made /\ retry.pc = "returned" /\ retry.result = retry.outcomes[i]
        /\ (retry.pc = "returned" /\ retry.result = NoneV) =>
               made = retry.retries + 1 /\ failed = made
        /\ \A k \in DOMAIN retry.waits : retry.waits[k] = 2 ^ (k - 1)
        /\ Len(retry.waits) =
               IF made = retry.retries + 1 /\ failed = made THEN failed - 1 ELSE failed
        /\ retry.pc = "returned" => Len(retry.waits) = made - 1

\* C36: when the request of generate ends in a timeout is_available keeps its
\* value, and when it ends in status 429, another status that is not 200, or
\* another exception, is_available becomes false; a generate call entered
\* with is_available false sends no request unless its health check answered
\* 200 first.
C36_AvailabilityEffects ==
    /\ [][/\ \A o \in PostOutcomes :
               (retry.pc = "awaiting" /\ groq_call.pc = "posting" /\ RetryPosted(o)) =>
                   /\ o = "timeout" => is_available' = is_available
                   /\ o \in {"429", "other status", "exception", "null content"} =>
                          ~is_available'
          /\ (RetryAttempt /\ ~is_available) =>
                 groq_call'.pc = "probing" /\ ~groq_call'.posted]_vars
    /\ [](groq_call.pc = "probing" => ~groq_call.posted)
    /\ [](groq_call.probe \notin {"none", "200"} => ~groq_call.posted)

\* a call entered with the client marked down, whose health check answered 200
\* and whose request returned None without marking the client down
C36_Witness ==
    /\ groq_call.pc = "returned"
    /\ groq_call.probe = "200"
    /\ groq_call.posted
    /\ groq_call.result = NoneV
    /\ is_available

C35_Witness ==
    /\ retry.pc = "returned"
    /\ retry.retries = 2
    /\ retry.outcomes = <<NoneV, NoneV, NoneV>>
    /\ retry.waits = <<1, 2>>

(***************************************************************************)
(* Rate limiting (API/TripCraft_AI/api/travel.py)                          *)
(***************************************************************************)
\* RATE_LIMIT_REQUESTS = 10 and RATE_LIMIT_WINDOW = 60 of the source, scaled
\* down so that a window fills and slides within MaxTime seconds
RATE_LIMIT_REQUESTS == 2
RATE_LIMIT_WINDOW == 3
\* the last second at which a request arrives
MaxTime == 4

\* client_ip
Clients == {"10.0.0.1", "10.0.0.2"}

\* [req_time for req_time in times if now - req_time < RATE_LIMIT_WINDOW]
Recent(times, t) == SelectSeq(times, LAMBDA req_time : t - req_time < RATE_LIMIT_WINDOW)

\* the negation of "if len(rate_limit_store[client_ip]) >= RATE_LIMIT_REQUESTS"
UnderLimit_AtLimit(times) == Len(times) <= RATE_LIMIT_REQUESTS

UnderLimit(times) == Len(times) < RATE_LIMIT_REQUESTS

\* max(0, n)
Max0(n) == IF n > 0 THEN n ELSE 0

\* no call was made
NoRateCall == [op |-> "", client_ip |-> "", allowed |-> FALSE, remaining |-> 0]

RateLimitInit ==
    /\ rate_limit_store = [c \in Clients |-> <<>>]
    /\ now = 0
    /\ admitted = [c \in Clients |-> <<>>]
    /\ rate_call = NoRateCall

\* time.time() has moved on by a second when the next request arrives
Tick ==
    /\ now < MaxTime
    /\ now' = now + 1
    /\ UNCHANGED <<rate_limit_store, admitted, rate_call>>
    /\ RateLimitOnly

\* check_rate_limit(client_ip), lines 26-39
CheckRateLimit(client_ip) ==
    /\ LET kept == Recent(rate_limit_store[client_ip], now)
           ok == UnderLimit(kept)
       IN  /\ rate_limit_store' =
                   [rate_limit_store EXCEPT ![client_ip] =
                        IF ok THEN Append(kept, now) ELSE kept]
           /\ admitted' = [admitted EXCEPT ![client_ip] =
                               IF ok THEN Append(@, now) ELSE @]
           /\ rate_call' = [op |-> "check_rate_limit", client_ip |-> client_ip,
                            allowed |-> ok, remaining |-> 0]
    /\ UNCHANGED now
    /\ RateLimitOnly

\* GET /rate-limit-status, lines 281-296
GetRateLimitStatus(client_ip) ==
    /\ LET recent_requests == Recent(rate_limit_store[client_ip], now)
       IN  rate_call' = [op |-> "get_rate_limit_status", client_ip |-> client_ip,
                         allowed |-> FALSE,
                         remaining |-> Max0(RATE_LIMIT_REQUESTS - Len(recent_requests))]
    /\ UNCHANGED <<rate_limit_store, now, admitted>>
    /\ RateLimitOnly

RateLimitNext ==
    \/ Tick
    \/ \E c \in Clients : CheckRateLimit(c)
    \/ \E c \in Clients : GetRateLimitStatus(c)

\* the requests of a client let through at a time in [from, from + window)
AdmittedIn(c, from) ==
    {i \in DOMAIN admitted[c] :
        from <= admitted[c][i] /\ admitted[c][i] < from + RATE_LIMIT_WINDOW}

\* C38: of the requests of one client that check_rate_limit lets through, at
\* most RATE_LIMIT_REQUESTS fall in any window of RATE_LIMIT_WINDOW seconds; a
\* request that is turned away adds nothing to the client's record; a call
\* for one client leaves the records of the others alone, and its answer
\* depends on that client's own requests only.
C38_SlidingWindow ==
    /\ [](\A c \in Clients, from \in 0 .. MaxTime :
              Cardinality(AdmittedIn(c, from)) <= RATE_LIMIT_REQUESTS)
    /\ [][\A c \in Clients :
              CheckRateLimit(c) =>
                  /\ ~rate_call'.allowed =>
                         /\ rate_limit_store'[c] = Recent(rate_limit_store[c], now)
                         /\ admitted'[c] = admitted[c]
                  /\ rate_call'.allowed <=>
                         Cardinality({i \in DOMAIN admitted[c] :
                                         now - admitted[c][i] < RATE_LIMIT_WINDOW})
                             < RATE_LIMIT_REQUESTS
                  /\ \A d \in Clients \ {c} :
                         /\ rate_limit_store'[d] = rate_limit_store[d]
                         /\ admitted'[d] = admitted[d]]_vars

\* a client is turned away again after its window had slid and let it
\* through again, while the other client has requests on record
C38_Witness ==
    \E c \in Clients :
        /\ rate_call.op = "check_rate_limit"
        /\ rate_call.client_ip = c
        /\ ~rate_call.allowed
        /\ Len(admitted[c]) > RATE_LIMIT_REQUESTS
        /\ \E d \in Clients \ {c} : Len(rate_limit_store[d]) > 0

(***************************************************************************)
(* LLMClientFallback (API_3_imp/TripCraft_AI/services/llm_client_fallback.py) *)
(***************************************************************************)
\* context_docs: None, documents whose content is text, or a document whose
\* "content" is null
ContextDocs == {"none", "text documents", "null content document"}

\* what the prompt asks about, as _generate_fallback_response tells it apart
PromptKinds == {"itinerary", "restaurant", "hotel", "other"}

\* _prepare_prompt (lines 110-119): doc.get('content', '')[:200] of a document
\* whose content is null raises TypeError
PreparePromptRaises(docs) == docs = "null content document"

\* _generate_fallback_response (lines 121-130)
GenerateFallbackResponse(kind) ==
    CASE kind = "itinerary" ->
            "Unable to generate detailed itinerary due to service unavailability. Please try again later."
      [] kind = "restaurant" ->
            "Restaurant recommendations temporarily unavailable. Consider exploring local dining options."
      [] kind = "hotel" ->
            "Accommodation search temporarily unavailable. Please check booking sites directly."
      [] OTHER -> "Service temporarily unavailable. Please try again in a few moments."

\* stop_after_attempt(3) of the decorator of _call_ollama (line 68)
OllamaAttempts == 3

\* how a POST to a backend ends
BackendOutcomes == {"text", "empty text", "fails"}

\* the text a backend's method returns
BackendText(outcome) == IF outcome = "text" THEN "generated" ELSE ""

\* no result: the call has not returned
NoLegacyResult == [text |-> "", backend |-> "", success |-> FALSE]

\* the caller has made no call
NoLegacyCall == [pc |-> "idle", prompt |-> "", attempt |-> 0, tried |-> <<>>,
                 result |-> NoLegacyResult]

\* lines 58-66
TemplateResult(kind) ==
    [text |-> GenerateFallbackResponse(kind), backend |-> "fallback", success |-> FALSE]

\* lines 36-41 and 49-54
BackendResult(backend, outcome) ==
    [text |-> BackendText(outcome), backend |-> backend, success |-> TRUE]

LegacyInit ==
    /\ hf_token \in BOOLEAN
    /\ last_backend_used = NoneV
    /\ legacy_call = [c \in Callers |-> NoLegacyCall]

\* the legacy client idle, with a HuggingFace token configured
LegacyQuiet ==
    /\ LegacyInit
    /\ hf_token = TRUE

\* generate_text is called: line 31, then the first POST to Ollama
LegacyStart(c, kind, docs) ==
    /\ legacy_call[c].pc \in {"idle", "returned", "raised"}
    /\ legacy_call' = [legacy_call EXCEPT ![c] =
                           IF PreparePromptRaises(docs)
                               THEN [NoLegacyCall EXCEPT !.pc = "raised", !.prompt = kind]
                               ELSE [NoLegacyCall EXCEPT !.pc = "ollama", !.prompt = kind,
                                                         !.attempt = 1,
                                                         !.tried = <<"ollama">>]]
    /\ UNCHANGED <<hf_token, last_backend_used>>
    /\ LegacyOnly

\* a POST of _call_ollama ends (lines 71-85); the decorator tries again until
\* the third attempt has failed, then lines 35-59
LegacyOllama(c, outcome) ==
    /\ legacy_call[c].pc = "ollama"
    /\ LET call == legacy_call[c]
       IN  IF outcome # "fails"
               THEN /\ legacy_call' = [legacy_call EXCEPT ![c] =
                           [call EXCEPT !.pc = "returned",
                                        !.result = BackendResult("ollama", outcome)]]
                    /\ last_backend_used' = "ollama"
           ELSE IF call.attempt < OllamaAttempts
               THEN /\ legacy_call' = [legacy_call EXCEPT ![c] =
                           [call EXCEPT !.attempt = @ + 1,
                                        !.tried = Append(@, "ollama")]]
                    /\ UNCHANGED last_backend_used
           ELSE IF hf_token
               THEN /\ legacy_call' = [legacy_call EXCEPT ![c] =
                           [call EXCEPT !.pc = "huggingface",
                                        !.tried = Append(@, "huggingface")]]
                    /\ UNCHANGED last_backend_used
           ELSE /\ legacy_call' = [legacy_call EXCEPT ![c] =
                       [call EXCEPT !.pc = "returned",
                                    !.tried = Append(@, "fallback"),
                                    !.result = TemplateResult(call.prompt)]]
                /\ last_backend_used' = "fallback"
    /\ UNCHANGED hf_token
    /\ LegacyOnly

\* the POST of _call_huggingface ends (lines 101-108), then lines 49-66
LegacyHuggingFace(c, outcome) ==
    /\ legacy_call[c].pc = "huggingface"
    /\ LET call == legacy_call[c]
       IN  IF outcome # "fails"
               THEN /\ legacy_call' = [legacy_call EXCEPT ![c] =
                           [call EXCEPT !.pc = "returned",
                                        !.result = BackendResult("huggingface", outcome)]]
                    /\ last_backend_used' = "huggingface"
               ELSE /\ legacy_call' = [legacy_call EXCEPT ![c] =
                           [call EXCEPT !.pc = "returned",
                                        !.tried = Append(@, "fallback"),
                                        !.result = TemplateResult(call.prompt)]]
                    /\ last_backend_used' = "fallback"
    /\ UNCHANGED hf_token
    /\ LegacyOnly

LegacyNext ==
    \/ \E c \in Callers, k \in PromptKinds, d \in ContextDocs : LegacyStart(c, k, d)
    \/ \E c \in Callers, o \in BackendOutcomes : LegacyOllama(c, o)
    \/ \E c \in Callers, o \in BackendOutcomes : LegacyHuggingFace(c, o)

\* the place of a backend in the order of fallback
Rank(backend) ==
    CASE backend = "ollama" -> 1 [] backend = "huggingface" -> 2 [] OTHER -> 3

\* how often a backend occurs in a sequence of attempts
Times(tried, backend) == Cardinality({i \in DOMAIN tried : tried[i] = backend})

\* C40: generate_text of the legacy client tries Ollama up to three times,
\* then HuggingFace only with a token configured, then the template, in
\* that order; it never raises; a result has success false exactly when
\* its backend is "fallback", and then its text is the non-empty template;
\* when a call returns, last_backend_used is the backend of its result.
C40_LegacyFallbackOrder ==
    /\ [](\A c \in Callers :
             LET call == legacy_call[c]
             IN  /\ call.pc # "raised"
                 /\ \A i, j \in DOMAIN call.tried :
                        i < j => Rank(call.tried[i]) <= Rank(call.tried[j])
                 /\ Times(call.tried, "ollama") <= OllamaAttempts
                 /\ Times(call.tried, "huggingface") <= 1
                 /\ Times(call.tried, "fallback") <= 1
                 /\ Times(call.tried, "huggingface") = 1 =>
                        hf_token /\ Times(call.tried, "ollama") = OllamaAttempts
                 /\ Times(call.tried, "fallback") = 1 =>
                        /\ Times(call.tried, "ollama") = OllamaAttempts
                        /\ hf_token => Times(call.tried, "huggingface") = 1
                 /\ call.pc = "returned" =>
                        /\ call.result.success <=> call.result.backend # "fallback"
                        /\ call.result.backend = "fallback" <=>
                               Times(call.tried, "fallback") = 1
                        /\ call.result.backend = "fallback" =>
                               /\ call.result.text = GenerateFallbackResponse(call.prompt)
                               /\ call.result.text # "")
    /\ [][\A c \in Callers :
              (legacy_call[c].pc # "returned" /\ legacy_call'[c].pc = "returned") =>
                  last_backend_used' = legacy_call'[c].result.backend]_vars

(***************************************************************************)
(* OllamaManager (API/TripCraft_AI/services/ollama_manager.py)             *)
(***************************************************************************)
\* the two entry points that warm the model up
OmOps == {"ensure_model_ready", "generate_optimized"}

\* how an HTTP exchange with Ollama ends
OmOutcomes == {"200", "other status", "exception"}

\* the caller has made no call
NoOmCall == [pc |-> "idle", op |-> "", ready |-> FALSE, sent |-> FALSE]

\* "async with self._lock" goes on without waiting
LockFree_Always(lock) == TRUE

LockFree(lock) == lock = {}

\* a warm-up is under way in call c: GET /api/tags or the one-token POST
WarmingUp(c) == om_call[c].pc \in {"health", "warming"}

\* ensure_model_ready has returned ready in call c (lines 21, 30, 47, 50, 54):
\* the entry point returns it, and generate_optimized goes on to its request
\* or returns None (lines 69-70, 94)
Ensured(call, ready) ==
    IF call.op = "generate_optimized" /\ ready
        THEN [call EXCEPT !.pc = "generating", !.ready = ready, !.sent = TRUE]
        ELSE [call EXCEPT !.pc = "returned", !.ready = ready]

OllamaInit ==
    /\ is_warmed_up = FALSE
    /\ om_lock = {}
    /\ om_call = [c \in Callers |-> NoOmCall]

\* a caller enters ensure_model_ready, directly or through
\* generate_optimized, and reaches "async with self._lock" (line 19)
OmEnter(c, op) ==
    /\ om_call[c].pc \in {"idle", "returned"}
    /\ om_call' = [om_call EXCEPT ![c] = [NoOmCall EXCEPT !.pc = "waiting", !.op = op]]
    /\ UNCHANGED <<is_warmed_up, om_lock>>
    /\ OllamaOnly

\* the lock is taken; lines 20-27, up to the await of GET /api/tags
OmAcquire(c) ==
    /\ om_call[c].pc = "waiting"
    /\ LockFree(om_lock)
    /\ IF is_warmed_up
          THEN /\ om_call' = [om_call EXCEPT ![c] = Ensured(@, TRUE)]
               /\ UNCHANGED om_lock
          ELSE /\ om_call' = [om_call EXCEPT ![c].pc = "health"]
               /\ om_lock' = om_lock \cup {c}
    /\ UNCHANGED is_warmed_up
    /\ OllamaOnly

\* GET /api/tags ends; lines 28-42, up to the await of the warm-up POST
OmHealth(c, outcome) ==
    /\ om_call[c].pc = "health"
    /\ IF outcome = "200"
          THEN /\ om_call' = [om_call EXCEPT ![c].pc = "warming"]
               /\ UNCHANGED om_lock
          ELSE /\ om_call' = [om_call EXCEPT ![c] = Ensured(@, FALSE)]
               /\ om_lock' = om_lock \ {c}
    /\ UNCHANGED is_warmed_up
    /\ OllamaOnly

\* the warm-up POST ends; lines 44-54
OmWarmed(c, outcome) ==
    /\ om_call[c].pc = "warming"
    /\ is_warmed_up' = IF outcome = "200" THEN TRUE ELSE is_warmed_up
    /\ om_call' = [om_call EXCEPT ![c] = Ensured(@, outcome = "200")]
    /\ om_lock' = om_lock \ {c}
    /\ OllamaOnly

\* the generation request of generate_optimized ends (lines 99-110)
OmGenerated(c) ==
    /\ om_call[c].pc = "generating"
    /\ om_call' = [om_call EXCEPT ![c].pc = "returned"]
    /\ UNCHANGED <<is_warmed_up, om_lock>>
    /\ OllamaOnly

OllamaNext ==
    \/ \E c \in Callers, op \in OmOps : OmEnter(c, op)
    \/ \E c \in Callers : OmAcquire(c)
    \/ \E c \in Callers, o \in OmOutcomes : OmHealth(c, o)
    \/ \E c \in Callers, o \in OmOutcomes : OmWarmed(c, o)
    \/ \E c \in Callers : OmGenerated(c)

\* C37: with callers interleaved, at most one warm-up is under way; once
\* is_warmed_up is true it stays true and no warm-up is under way or begun;
\* generate_optimized sends its generation request only with is_warmed_up true.
C37_WarmUpSerializedOneShot ==
    /\ [](Cardinality({c \in Callers : WarmingUp(c)}) <= 1)
    /\ [](is_warmed_up => \A c \in Callers : ~WarmingUp(c))
    /\ [](\A c \in Callers : om_call[c].pc = "generating" => is_warmed_up)
    /\ [][/\ is_warmed_up => is_warmed_up'
          /\ \A c \in Callers :
                (~om_call[c].sent /\ om_call'[c].sent) =>
                    is_warmed_up' /\ om_call[c].op = "generate_optimized"]_vars

\* one caller's warm-up POST is under way while another caller of
\* generate_optimized waits for the lock
C37_Witness ==
    \E c, d \in Callers :
        /\ om_call[c].pc = "warming"
        /\ om_call[d].pc = "waiting" /\ om_call[d].op = "generate_optimized"

(***************************************************************************)
(* Properties of the provider state                                        *)
(***************************************************************************)
\* C20: no failure takes a provider out of use. Every generate_text call has
\* all three providers in its attempt order, and a call that returns
\* success=false has attempted all three; a generate call of the Groq client
\* that found the client marked unavailable and whose health check answered
\* 200 marks it available again and sends its request.
C20_AvailabilityRecoverable ==
    /\ \A c \in Callers :
          gen_pc[c] # "idle" =>
              /\ Len(providers[c]) = Len(FixedOrder)
              /\ {providers[c][i] : i \in DOMAIN providers[c]} = Providers
              /\ (gen_pc[c] = "done" /\ ~result[c].success) =>
                    {attempts[c][i].provider : i \in DOMAIN attempts[c]} = Providers
    /\ (groq_call.pc \in {"posting", "returned"} /\ groq_call.probe = "200") =>
          /\ groq_call.posted
          /\ groq_call.pc = "posting" => is_available

\* a generate_text call that followed a success of gemini got its text from
\* groq, and a generate call of the Groq client got text after a health check
\* that answered 200
C20_Witness ==
    /\ \E c \in Callers :
          /\ gen_pc[c] = "done"
          /\ seen_prev[c].success /\ seen_prev[c].provider = "gemini"
          /\ result[c].success /\ result[c].provider = "groq"
    /\ groq_call.pc = "returned"
    /\ groq_call.probe = "200"
    /\ groq_call.result = "text"

\* the LLM manager idle, with both keys configured
LLMQuiet ==
    /\ LLMInit
    /\ settings = [GROQ_API_KEY |-> TRUE, GOOGLE_API_KEY |-> TRUE]

\* the LLM manager in sequential use
\* the services idle, all of them built
ServiceQuiet ==
    /\ ServiceInit
    /\ services = [orchestrator |-> TRUE, safety_service |-> TRUE,
                   realtime_service |-> TRUE]

\* the components that stand apart, idle
ExtraInit == RetryInit /\ OllamaInit /\ RateLimitInit /\ LegacyQuiet

Init == LLMInit /\ OrchInit /\ RealtimeInit /\ ServiceQuiet /\ GroqInit /\ ExtraInit

Spec == Init /\ [][LLMNext]_vars

\* the LLM manager shared by concurrent callers
ConcurrentSpec == Init /\ [][ConcurrentNext]_vars

\* the orchestrator
OrchSpecInit ==
    LLMQuiet /\ OrchInit /\ RealtimeInit /\ ServiceQuiet /\ GroqInit /\ ExtraInit

OrchSpec == OrchSpecInit /\ [][OrchNext]_vars

\* the orchestrator under a fair event loop, with workers that come back:
\* every task that can start does, every worker that runs returns or raises,
\* and execute goes on when what it awaits is done
OrchFairness ==
    /\ WF_vars(\E i \in DOMAIN agent_names : TaskStart(i))
    /\ WF_vars(\E i \in DOMAIN agent_names, o \in WorkerOutcomes : TaskFinish(i, o))
    /\ WF_vars(Join)
    /\ WF_vars(\E o \in WorkerOutcomes : BudgetFinish(o))
    /\ WF_vars(\E o \in WorkerOutcomes : AudioTourFinish(o))

OrchFairSpec == OrchSpecInit /\ [][OrchNext]_vars /\ OrchFairness

\* the websocket connections
RealtimeSpecInit ==
    LLMQuiet /\ OrchInit /\ RealtimeInit /\ ServiceQuiet /\ GroqInit /\ ExtraInit

RealtimeSpec == RealtimeSpecInit /\ [][RealtimeNext]_vars

\* the travel planning service and the RealtimeService endpoints
ServiceSpecInit ==
    LLMQuiet /\ OrchInit /\ RealtimeInit /\ ServiceInit /\ GroqInit /\ ExtraInit

ServiceSpec == ServiceSpecInit /\ [][ServiceNext]_vars

\* the monitoring loops of the travel service's RealtimeService, under a fair
\* event loop
MonitorSpecInit ==
    LLMQuiet /\ OrchInit /\ RealtimeInit /\ ServiceQuiet /\ GroqInit /\ ExtraInit

MonitorSpec == MonitorSpecInit /\ [][MonitorNext]_vars /\ MonitorFairness

\* the two keepers of provider state, the LLM manager and the Groq client,
\* each in sequential use
ProviderSpecInit ==
    LLMQuiet /\ OrchInit /\ RealtimeInit /\ ServiceQuiet /\ GroqInit /\ ExtraInit

ProviderNext == LLMNext \/ GroqNext

ProviderSpec == ProviderSpecInit /\ [][ProviderNext]_vars

\* the core idle
CoreQuiet == LLMQuiet /\ OrchInit /\ RealtimeInit /\ ServiceQuiet

\* everything idle
AllQuiet == CoreQuiet /\ GroqInit /\ ExtraInit

\* the Ollama manager shared by concurrent callers
OllamaSpec == AllQuiet /\ [][OllamaNext]_vars

\* the rate limiter of the travel endpoints
RateLimitSpec == AllQuiet /\ [][RateLimitNext]_vars

\* the legacy two-backend client shared by concurrent callers
LegacySpecInit ==
    CoreQuiet /\ GroqInit /\ RetryInit /\ OllamaInit /\ RateLimitInit /\ LegacyInit

LegacySpec == LegacySpecInit /\ [][LegacyNext]_vars

\* the Groq client behind generate_with_retry
RetrySpec == AllQuiet /\ [][RetryNext]_vars

====
